---- MODULE Spec2Model ----
(***************************************************************************)
(* Discovery and reward accounting of the Solana voyager environment.      *)
(*                                                                         *)
(* SolanaVoyagerEnv (src/voyager_env.py) is the reference engine: a        *)
(* protocol bonus of 1.0 per newly seen registry display name and an       *)
(* instruction bonus of 0.5 per newly seen (program id, first byte) pair.  *)
(* Rewards are counted in half units so that they stay integers:           *)
(* 1.0 is 2 and 0.5 is 1.                                                  *)
(***************************************************************************)
EXTENDS Integers, Sequences, FiniteSets, TLC

(***************************************************************************)
(* Text is a sequence of one-character strings, so that the decoders can   *)
(* be computed character by character as the libraries do.                 *)
(***************************************************************************)
B64Alphabet ==
    << "A","B","C","D","E","F","G","H","I","J","K","L","M","N","O","P",
       "Q","R","S","T","U","V","W","X","Y","Z","a","b","c","d","e","f",
       "g","h","i","j","k","l","m","n","o","p","q","r","s","t","u","v",
       "w","x","y","z","0","1","2","3","4","5","6","7","8","9","+","/" >>

B58Alphabet ==
    << "1","2","3","4","5","6","7","8","9","A","B","C","D","E","F","G",
       "H","J","K","L","M","N","P","Q","R","S","T","U","V","W","X","Y",
       "Z","a","b","c","d","e","f","g","h","i","j","k","m","n","o","p",
       "q","r","s","t","u","v","w","x","y","z" >>

\* Position of character c in an alphabet, counted from 0; -1 when absent.
AlphaIndex(alphabet, c) ==
    IF \E i \in 1..Len(alphabet) : alphabet[i] = c
    THEN (CHOOSE i \in 1..Len(alphabet) : alphabet[i] = c) - 1
    ELSE -1

\* Big-endian bytes of a natural number, no leading zero byte (0 gives <<>>).
RECURSIVE ToBytes(_)
ToBytes(n) == IF n = 0 THEN <<>> ELSE Append(ToBytes(n \div 256), n % 256)

(***************************************************************************)
(* base64.b64decode(s) with validate=False, as binascii.a2b_base64 does    *)
(* it: characters outside the alphabet are skipped, every four data        *)
(* characters give three bytes, "=" ends the data once the open quad has   *)
(* at least two characters and enough padding follows, and data that stops *)
(* inside a quad is an error.  The scan state is (position in the quad,    *)
(* bits of the open quad, padding seen, bytes so far).                     *)
(***************************************************************************)
RECURSIVE B64Scan(_, _, _, _, _, _)
B64Scan(s, i, quad, acc, pads, out) ==
    IF i > Len(s)
    THEN [ok |-> quad = 0, bytes |-> out]
    ELSE IF s[i] = "="
         THEN IF quad >= 2 /\ quad + pads + 1 >= 4
              THEN [ok |-> TRUE,
                    bytes |-> IF quad = 2
                              THEN Append(out, acc \div 16)
                              ELSE out \o << acc \div 1024, (acc \div 4) % 256 >>]
              ELSE B64Scan(s, i + 1, quad, acc, pads + 1, out)
         ELSE IF AlphaIndex(B64Alphabet, s[i]) < 0
              THEN B64Scan(s, i + 1, quad, acc, pads, out)
              ELSE LET v == acc * 64 + AlphaIndex(B64Alphabet, s[i])
                   IN  IF quad = 3
                       THEN B64Scan(s, i + 1, 0, 0, 0,
                                    out \o << v \div 65536, (v \div 256) % 256, v % 256 >>)
                       ELSE B64Scan(s, i + 1, quad + 1, v, 0, out)

B64Decode(s) == B64Scan(s, 1, 0, 0, 0, <<>>)

(***************************************************************************)
(* base58.b58decode(s): every character must be in the alphabet, the       *)
(* digits are accumulated in base 58, and each leading "1" gives one       *)
(* leading zero byte.                                                      *)
(***************************************************************************)
RECURSIVE B58Acc(_, _, _)
B58Acc(s, i, acc) ==
    IF i > Len(s) THEN acc
    ELSE B58Acc(s, i + 1, acc * 58 + AlphaIndex(B58Alphabet, s[i]))

RECURSIVE B58LeadingOnes(_, _)
B58LeadingOnes(s, i) ==
    IF i > Len(s) \/ s[i] # "1" THEN 0 ELSE 1 + B58LeadingOnes(s, i + 1)

B58Decode(s) ==
    IF \E i \in 1..Len(s) : AlphaIndex(B58Alphabet, s[i]) < 0
    THEN [ok |-> FALSE, bytes |-> <<>>]
    ELSE [ok |-> TRUE,
          bytes |-> [k \in 1..B58LeadingOnes(s, 1) |-> 0] \o ToBytes(B58Acc(s, 1, 0))]

\* bytes.hex() of one byte: its two hexadecimal digits.
Hex(b) == << b \div 16, b % 16 >>

(***************************************************************************)
(* The known-program registry, loaded once at import from                  *)
(* data/program_ids.csv: program address -> project name.  Two addresses   *)
(* may carry the same project name.                                        *)
(***************************************************************************)
KNOWN_PROGRAM_IDS ==
    [k \in {"JUP6", "JUP4", "LBUZ"} |->
        CASE k = "JUP6" -> "Jupiter"
          [] k = "JUP4" -> "Jupiter"
          [] k = "LBUZ" -> "Meteora"]

ProtocolNames == {KNOWN_PROGRAM_IDS[k] : k \in DOMAIN KNOWN_PROGRAM_IDS}

\* instruction.get("programIdIndex") of an instruction that has no such key.
None == -1

Range(f) == {f[i] : i \in DOMAIN f}

(***************************************************************************)
(* _protocol_labeler: the project names of the known programs a receipt    *)
(* refers to, each once, in order of first appearance: first the programs  *)
(* of the top-level instructions, then every account key.  The err field   *)
(* of the receipt is not read.                                             *)
(***************************************************************************)
RECURSIVE LabelInstructions(_, _, _, _)
LabelInstructions(account_keys, instructions, i, protocols_found) ==
    IF i > Len(instructions) THEN protocols_found
    ELSE LET program_id_index == instructions[i].programIdIndex
             known == /\ program_id_index # None
                      /\ program_id_index < Len(account_keys)
                      /\ account_keys[program_id_index + 1] \in DOMAIN KNOWN_PROGRAM_IDS
             protocol == KNOWN_PROGRAM_IDS[account_keys[program_id_index + 1]]
         IN  IF known /\ protocol \notin Range(protocols_found)
             THEN LabelInstructions(account_keys, instructions, i + 1,
                                    Append(protocols_found, protocol))
             ELSE LabelInstructions(account_keys, instructions, i + 1, protocols_found)

RECURSIVE LabelAccountKeys(_, _, _)
LabelAccountKeys(account_keys, i, protocols_found) ==
    IF i > Len(account_keys) THEN protocols_found
    ELSE IF /\ account_keys[i] \in DOMAIN KNOWN_PROGRAM_IDS
            /\ KNOWN_PROGRAM_IDS[account_keys[i]] \notin Range(protocols_found)
         THEN LabelAccountKeys(account_keys, i + 1,
                               Append(protocols_found, KNOWN_PROGRAM_IDS[account_keys[i]]))
         ELSE LabelAccountKeys(account_keys, i + 1, protocols_found)

LabelerMutFirstOnly(tx_receipt) ==
    IF tx_receipt.accountKeys = <<>> THEN <<>>
    ELSE SubSeq(LabelAccountKeys(tx_receipt.accountKeys, 1,
                    LabelInstructions(tx_receipt.accountKeys, tx_receipt.instructions,
                                      1, <<>>)), 1, 1)

LabelerMutInstructionsOnly(tx_receipt) ==
    IF tx_receipt.accountKeys = <<>> THEN <<>>
    ELSE LabelInstructions(tx_receipt.accountKeys, tx_receipt.instructions, 1, <<>>)

protocol_labeler(tx_receipt) ==
    IF tx_receipt.accountKeys = <<>> THEN <<>>
    ELSE LabelAccountKeys(tx_receipt.accountKeys, 1,
             LabelInstructions(tx_receipt.accountKeys, tx_receipt.instructions, 1, <<>>))

(***************************************************************************)
(* The discriminator of one instruction's data: base64 is tried first and  *)
(* base58 only when base64 raises; the first decoded byte, as hex.  The    *)
(* result is a set: empty when the data is empty, undecodable or decodes   *)
(* to no bytes.                                                            *)
(***************************************************************************)
DecodeData(data_str) ==
    IF B64Decode(data_str).ok THEN B64Decode(data_str) ELSE B58Decode(data_str)

DiscriminatorsMutEmptyAsZero(data_str) ==
    IF data_str = <<>> THEN {Hex(0)}
    ELSE IF DecodeData(data_str).ok /\ Len(DecodeData(data_str).bytes) > 0
         THEN {Hex(DecodeData(data_str).bytes[1])}
         ELSE {}

Discriminators(data_str) ==
    IF data_str = <<>> THEN {}
    ELSE IF DecodeData(data_str).ok /\ Len(DecodeData(data_str).bytes) > 0
         THEN {Hex(DecodeData(data_str).bytes[1])}
         ELSE {}

(***************************************************************************)
(* The instruction data strings of the model.  The validator's JSON        *)
(* encoding gives instruction data in base58, so each string is the base58 *)
(* text of its payload: "" of no bytes, "2" of 01, "3" of 02, "9" of 08    *)
(* and "3yZe" of 08 db 95.  "3yZe" is also well-formed base64 (of          *)
(* df 26 5e); the one-character strings are not.                           *)
(***************************************************************************)
D_empty == << >>
D_2     == << "2" >>
D_3     == << "3" >>
D_9     == << "9" >>
D_3yZe  == << "3", "y", "Z", "e" >>

DataStrings == { D_empty, D_2, D_3, D_9, D_3yZe }

\* The payload bytes the validator encoded into an instruction's data text.
Payload(data_str) == B58Decode(data_str).bytes

\* Discriminators, computed once per data string.
DiscriminatorsOf == [d \in DataStrings |-> Discriminators(d)]

\* program_discriminators with the discriminators ds added under program_id.
AddDiscriminators(program_discriminators, program_id, ds) ==
    IF ds = {} THEN program_discriminators
    ELSE [p \in DOMAIN program_discriminators \cup {program_id} |->
            (IF p \in DOMAIN program_discriminators
             THEN program_discriminators[p] ELSE {})
            \cup (IF p = program_id THEN ds ELSE {})]

\* One loop over a list of instructions (top-level, or one inner group).
RECURSIVE ExtractFrom(_, _, _, _)
ExtractFrom(account_keys, instructions, i, program_discriminators) ==
    IF i > Len(instructions) THEN program_discriminators
    ELSE LET program_id_index == instructions[i].programIdIndex
         IN  IF program_id_index # None /\ program_id_index < Len(account_keys)
             THEN ExtractFrom(account_keys, instructions, i + 1,
                      AddDiscriminators(program_discriminators,
                                        account_keys[program_id_index + 1],
                                        DiscriminatorsOf[instructions[i].data]))
             ELSE ExtractFrom(account_keys, instructions, i + 1, program_discriminators)

RECURSIVE ExtractInner(_, _, _, _)
ExtractInner(account_keys, inner_instructions, g, program_discriminators) ==
    IF g > Len(inner_instructions) THEN program_discriminators
    ELSE ExtractInner(account_keys, inner_instructions, g + 1,
             ExtractFrom(account_keys, inner_instructions[g].instructions, 1,
                         program_discriminators))

(***************************************************************************)
(* _extract_instruction_discriminators: program id -> discriminators, from *)
(* the top-level instructions and then the inner instruction groups.  When *)
(* meta.innerInstructions is null the loop over it raises; the exception   *)
(* is caught and logged, and what the top-level loop collected is returned.*)
(***************************************************************************)
extract_instruction_discriminators(tx_receipt) ==
    IF tx_receipt.accountKeys = <<>> THEN [discs |-> << >>, raised |-> FALSE]
    ELSE LET top == ExtractFrom(tx_receipt.accountKeys, tx_receipt.instructions, 1, << >>)
         IN  IF tx_receipt.innerNull
             THEN [discs |-> top, raised |-> TRUE]
             ELSE [discs |-> ExtractInner(tx_receipt.accountKeys,
                                          tx_receipt.innerInstructions, 1, top),
                   raised |-> FALSE]

(***************************************************************************)
(* Bounds of the model.                                                    *)
(***************************************************************************)
\* step() calls explored per episode
MaxSteps == 2
\* skills the store may hold
MaxSkills == 1

\* CONFIG: max_steps, the constructor's parameter, set to a small episode.
max_steps == 2

(***************************************************************************)
(* Transaction receipts, as json.loads gives them: the account keys, the   *)
(* top-level instructions {programIdIndex, data}, meta.innerInstructions   *)
(* (a list of groups {index, instructions}, or null) and meta.err.         *)
(* Index 2 is out of range for every account key list below, index 1 for   *)
(* the list of one key.                                                    *)
(***************************************************************************)
Ix(program_id_index, data) == [programIdIndex |-> program_id_index, data |-> data]

AccountKeyLists ==
    { << "JUP6" >>, << "SYS1", "JUP6" >>, << "JUP6", "JUP4" >>, << "JUP6", "LBUZ" >> }

TopLevelLists ==
    { << Ix(0, D_2) >>,
      << Ix(0, D_empty), Ix(1, D_3yZe) >>,
      << Ix(1, D_2), Ix(2, D_3) >>,
      << Ix(None, D_2), Ix(0, D_9) >>,
      << Ix(0, D_2), Ix(0, D_3) >>,
      << Ix(0, D_empty) >> }

InnerChoices ==
    { [groups |-> << >>, null |-> FALSE],
      [groups |-> << >>, null |-> TRUE],
      [groups |-> << [index |-> 0, instructions |-> << Ix(1, D_3) >>] >>, null |-> FALSE] }

\* The receipts of the model: every account key list with every top-level
\* list; those of the first two top-level lists also failed on chain, with
\* inner instructions, and with innerInstructions null.
Receipts ==
    { r \in { [accountKeys |-> k, instructions |-> tl, innerInstructions |-> inn.groups,
               innerNull |-> inn.null, err |-> e] :
                k \in AccountKeyLists, tl \in TopLevelLists,
                inn \in InnerChoices, e \in BOOLEAN } :
        (r.err \/ r.innerNull \/ r.innerInstructions # << >>) =>
            /\ r.err => (~r.innerNull /\ r.innerInstructions = << >>)
            /\ r.instructions \in { << Ix(0, D_2) >>, << Ix(0, D_empty), Ix(1, D_3yZe) >> } }

\* '{"meta": {"err": null}, "transaction": {}}', the receipt _run_skill
\* substitutes when the submission reports possible_success.
DummyReceipt ==
    [accountKeys |-> << >>, instructions |-> << >>, innerInstructions |-> << >>,
     innerNull |-> FALSE, err |-> FALSE]

AllReceipts == Receipts \cup {DummyReceipt}

\* The labeler and the extractor, computed once per receipt.
LabelsOf == [r \in AllReceipts |-> protocol_labeler(r)]
ExtractedOf == [r \in AllReceipts |-> extract_instruction_discriminators(r)]

(***************************************************************************)
(* What the collaborators of one _run_skill call do: the skill execution   *)
(* (raises / returns no serialized_tx / returns one), decoding and signing *)
(* (raises or not), and SurfpoolEnv.step (a receipt / an error / the       *)
(* "missing field `data`" parsing defect).                                 *)
(***************************************************************************)
Response(exec, sign_ok, send, receipt) ==
    [exec |-> exec, sign_ok |-> sign_ok, send |-> send, receipt |-> receipt]

FailedResponses ==
    { Response("raises", TRUE, "none", DummyReceipt),
      Response("no_tx", TRUE, "none", DummyReceipt),
      Response("tx", FALSE, "none", DummyReceipt),
      Response("tx", TRUE, "error", DummyReceipt),
      Response("tx", TRUE, "possible_success", DummyReceipt) }

Responses == FailedResponses \cup { Response("tx", TRUE, "receipt", r) : r \in Receipts }

\* surfpool_step with the parsing defect reported as a confirmed receipt
SurfpoolStepMutConflate(response) ==
    [has_receipt |-> response.send \in {"receipt", "possible_success"},
     receipt |-> IF response.send = "receipt" THEN response.receipt ELSE DummyReceipt,
     done |-> response.send \notin {"receipt", "possible_success"},
     possible_success |-> FALSE]

(***************************************************************************)
(* SurfpoolEnv.step of src/surfpool_env.py as _run_skill sees it:          *)
(* (receipt or None, done, info).  On an error it returns done = True,     *)
(* except for the parsing defect, which is flagged possible_success.       *)
(***************************************************************************)
surfpool_step(response) ==
    CASE response.send = "receipt" ->
             [has_receipt |-> TRUE, receipt |-> response.receipt, done |-> FALSE,
              possible_success |-> FALSE]
      [] response.send = "possible_success" ->
             [has_receipt |-> FALSE, receipt |-> DummyReceipt, done |-> FALSE,
              possible_success |-> TRUE]
      [] OTHER ->
             [has_receipt |-> FALSE, receipt |-> DummyReceipt, done |-> TRUE,
              possible_success |-> FALSE]

\* final_reward += 1.0 and final_reward += 0.5, in half units
ProtocolBonus == 2
InstructionBonus == 1

(***************************************************************************)
(* The protocol loop of _run_skill: each labelled protocol that is not in  *)
(* protocols_seen is added and earns the bonus.  paid lists the protocols  *)
(* for which the bonus branch ran.                                         *)
(***************************************************************************)
RECURSIVE RewardProtocolsMutNoCheck(_, _, _, _, _)
RewardProtocolsMutNoCheck(protocols, i, seen, reward, paid) ==
    IF i > Len(protocols) THEN [seen |-> seen, reward |-> reward, paid |-> paid]
    ELSE RewardProtocolsMutNoCheck(protocols, i + 1, seen \cup {protocols[i]},
                                   reward + ProtocolBonus, Append(paid, protocols[i]))

RECURSIVE RewardProtocolsMutAssign(_, _, _, _, _)
RewardProtocolsMutAssign(protocols, i, seen, reward, paid) ==
    IF i > Len(protocols) THEN [seen |-> seen, reward |-> reward, paid |-> paid]
    ELSE IF protocols[i] \notin seen
         THEN RewardProtocolsMutAssign(protocols, i + 1, {protocols[i]},
                                       reward + ProtocolBonus, Append(paid, protocols[i]))
         ELSE RewardProtocolsMutAssign(protocols, i + 1, seen, reward, paid)

RECURSIVE RewardProtocols(_, _, _, _, _)
RewardProtocols(protocols, i, seen, reward, paid) ==
    IF i > Len(protocols) THEN [seen |-> seen, reward |-> reward, paid |-> paid]
    ELSE IF protocols[i] \notin seen
         THEN RewardProtocols(protocols, i + 1, seen \cup {protocols[i]},
                              reward + ProtocolBonus, Append(paid, protocols[i]))
         ELSE RewardProtocols(protocols, i + 1, seen, reward, paid)

\* self.program_instructions_seen[program_id], or the empty set it is
\* initialised to when the program has no entry yet.
SeenFor(instructions_seen, program_id) ==
    IF program_id \in DOMAIN instructions_seen THEN instructions_seen[program_id] ELSE {}

RECURSIVE SumCardinality(_, _)
SumCardinality(f, ps) ==
    IF ps = {} THEN 0
    ELSE LET p == CHOOSE q \in ps : TRUE
         IN  Cardinality(f[p]) + SumCardinality(f, ps \ {p})

(***************************************************************************)
(* The instruction loop of _run_skill: for each program of the extracted   *)
(* discriminators, new_instructions = discriminators - seen; each new one  *)
(* is added to the program's set and earns the bonus.                      *)
(***************************************************************************)
RewardInstructionsMutForget(program_instructions, instructions_seen) ==
    LET new == [p \in DOMAIN program_instructions |->
                  program_instructions[p] \ SeenFor(instructions_seen, p)]
    IN  [seen |-> instructions_seen,
         reward |-> InstructionBonus * SumCardinality(new, DOMAIN new),
         new |-> new]

RewardInstructions(program_instructions, instructions_seen) ==
    LET new == [p \in DOMAIN program_instructions |->
                  program_instructions[p] \ SeenFor(instructions_seen, p)]
    IN  [seen |-> [p \in DOMAIN instructions_seen \cup DOMAIN program_instructions |->
                     SeenFor(instructions_seen, p) \cup SeenFor(program_instructions, p)],
         reward |-> InstructionBonus * SumCardinality(new, DOMAIN new),
         new |-> new]

(***************************************************************************)
(* The exploration bonus of _run_skill for one receipt, from the discovery *)
(* state (seen, instructions_seen) it finds.                               *)
(***************************************************************************)
ExplorationBonus(receipt, seen, instructions_seen) ==
    LET protocols == LabelsOf[receipt]
        byProtocol == RewardProtocols(protocols, 1, seen, 0, << >>)
        extracted == ExtractedOf[receipt]
        byInstruction == RewardInstructions(extracted.discs, instructions_seen)
    IN  [reward |-> byProtocol.reward + byInstruction.reward,
         protocol_reward |-> byProtocol.reward,
         instruction_reward |-> byInstruction.reward,
         protocols_seen |-> byProtocol.seen,
         program_instructions_seen |-> byInstruction.seen,
         protocols_interacted |-> protocols,
         paid |-> byProtocol.paid,
         new_instructions |-> byInstruction.new,
         logged_error |-> extracted.raised]

NoBonus(seen, instructions_seen) ==
    [reward |-> 0, protocol_reward |-> 0, instruction_reward |-> 0,
     protocols_seen |-> seen, program_instructions_seen |-> instructions_seen,
     protocols_interacted |-> << >>, paid |-> << >>, new_instructions |-> << >>,
     logged_error |-> FALSE]

(***************************************************************************)
(* _run_skill: what one attempt returns and leaves in the discovery state. *)
(* outcome names the info key the attempt ends with ("no_tx": none).       *)
(***************************************************************************)
run_skill(known, response, seen, instructions_seen) ==
    LET sent == surfpool_step(response)
        outcome ==
            CASE ~known -> "unknown_skill"
              [] response.exec = "raises" -> "skill_exception"
              [] response.exec = "no_tx" -> "no_tx"
              [] ~response.sign_ok -> "tx_processing_error"
              [] sent.has_receipt -> "tx_sent"
              [] sent.possible_success -> "tx_possibly_sent"
              [] OTHER -> "tx_error"
        has_receipt_str == outcome \in {"tx_sent", "tx_possibly_sent"}
    IN  [outcome |-> outcome,
         submitted |-> outcome \in {"tx_sent", "tx_possibly_sent", "tx_error"},
         has_receipt |-> outcome = "tx_sent",
         receipt |-> IF has_receipt_str THEN sent.receipt ELSE DummyReceipt,
         done |-> outcome \in {"tx_sent", "tx_possibly_sent", "tx_error"} /\ sent.done,
         bonus |-> IF has_receipt_str
                   THEN ExplorationBonus(sent.receipt, seen, instructions_seen)
                   ELSE NoBonus(seen, instructions_seen)]

\* terminated = self.t >= self.max_steps; the low-level env's done flag is
\* not part of it.
\* a step() that reports termination one step late
TerminatedMutLate(steps, done) == steps > max_steps

TerminatedMutDone(steps, done) == steps >= max_steps \/ done

Terminated(steps, done) == steps >= max_steps

VARIABLES
    t,                          \* self.t
    protocols_seen,             \* self.protocols_seen
    program_instructions_seen,  \* self.program_instructions_seen
    next_skill_id,              \* self.skills.next_skill_id; the ids are 0..next_skill_id-1
    result,                     \* what the last step() returned
    attempts,                   \* the last two skill-run attempts of the episode
    bonus_paid,                 \* per protocol, the bonuses paid in the episode
    sp_instructions_seen,       \* voyager SurfpoolEnv.program_instructions_seen (its keys)
    sp_calls,                   \* step() calls made on the voyager SurfpoolEnv
    sp_last,                    \* its last step() call: the input and what came back
    last_fetched_examples,      \* SolanaVoyagerEnv.last_fetched_examples
    skills_dir,                 \* the .ts files of TypeScriptSkillManager.skills_dir
    skills,                     \* TypeScriptSkillManager.skills of the live manager
    store_next_skill_id,        \* TypeScriptSkillManager.next_skill_id of the live manager
    action_space_n,             \* SolanaVoyagerEnv.action_space.n
    store_last,                 \* the last call on the skill store and what it returned
    ckpt_code,                  \* the files of {ckpt_dir}/skill/code of the voyager skill manager
    ckpt_skills,                \* its self.skills (skills.json): program name -> code
    ckpt_last,                  \* the last call on it
    validator_env,              \* which SurfpoolEnv class the environment is
    validator_cm,               \* SurfpoolEnv._validator_cm
    validator_proc,             \* SurfpoolEnv._validator_proc
    validator_alive,            \* the validator processes of the environment that are alive
    validator_spawned,          \* the number of validator processes it has spawned
    validator_peak,             \* the most of them alive at one moment of the last call
    validator_torn,             \* the runs of the teardown block in the last call
    validator_funded,           \* SurfpoolEnv.agent_keypair got its airdrop
    validator_step,             \* the last SurfpoolEnv.step() call
    exec_manager,               \* the module the TypeScriptSkillManager comes from
    exec_block,                 \* the validator's latest block
    exec_last,                  \* the last skill execution asked for
    conc_t,                     \* SolanaVoyagerEnv.t under concurrent step() calls
    conc_protocols_seen,        \* protocols_seen under concurrent step() calls
    conc_instructions_seen,     \* program_instructions_seen, the same
    conc_pc,                    \* where each step() coroutine is
    conc_result,                \* what each step() coroutine returned
    conc_paid,                  \* bonuses paid so far, in half units: protocols, instructions
    ep_t,                       \* SolanaVoyagerEnv.t, followed across episodes
    ep_protocols_seen,          \* protocols_seen, the same
    ep_instructions_seen,       \* program_instructions_seen, the same
    ep_earlier,                 \* history: what the episodes before this one discovered
    ep_last,                    \* the last reset() or skill run
    tr_episodes,                \* TrajectoryTracker.episodes
    tr_current,                 \* TrajectoryTracker.current_episode: its place in episodes, 0 for None
    tr_last,                    \* the last call made with tracking enabled
    key_made,                   \* Keypair() calls so far; the n-th call yields key n
    key_agent_keypair,          \* solana_env.agent_keypair
    key_planner_pubkey,         \* planner.agent_pubkey
    key_funded,                 \* the keys an airdrop has funded
    key_t,                      \* SolanaVoyagerEnv.t
    key_last,                   \* the last call, and the keys it put in prompts, handed to skills and signed with
    ro_pc,                      \* where SimpleExplorer.rollout is
    ro_reward,                  \* SimpleExplorer.reward
    ro_step_reward,             \* reward, local to step()
    ro_finish_reason,           \* finish_reason, local to step()
    ro_done,                    \* done, as step() last returned it
    ro_calls,                   \* model answers received so far
    ro_step_rewards,            \* the reward of every step() that returned, in order
    pt_file,                    \* the rows of progress.csv under its header
    pt_tracker,                 \* the live ProgressTracker
    pt_last,                    \* the last call; for a resume, the tracker before it and after it
    cu_completed_tasks,         \* CurriculumAgent.completed_tasks
    cu_failed_tasks,            \* CurriculumAgent.failed_tasks
    cu_skills,                  \* the program names in the skill manager of VoyagerClone
    cu_reported,                \* every task update_exploration_progress was called with
    cu_first_completions,       \* the tasks reported as completed, in the order of their first such report
    cu_last,                    \* the last iteration of learn(): the task, the verdict and what followed
    validator_last              \* the last call and how it ended

voyager_vars == << t, protocols_seen, program_instructions_seen, next_skill_id,
                   result, attempts, bonus_paid >>

sp_vars == << sp_instructions_seen, sp_calls, sp_last >>

examples_vars == << last_fetched_examples >>

store_vars == << skills_dir, skills, store_next_skill_id, action_space_n, store_last >>

ckpt_vars == << ckpt_code, ckpt_skills, ckpt_last >>

validator_vars == << validator_env, validator_cm, validator_proc, validator_alive, validator_spawned,
                     validator_peak, validator_torn, validator_funded, validator_step,
                     validator_last >>

exec_vars == << exec_manager, exec_block, exec_last >>

conc_vars == << conc_t, conc_protocols_seen, conc_instructions_seen, conc_pc, conc_result,
                conc_paid >>

ep_vars == << ep_t, ep_protocols_seen, ep_instructions_seen, ep_earlier, ep_last >>

tr_vars == << tr_episodes, tr_current, tr_last >>

key_vars == << key_made, key_agent_keypair, key_planner_pubkey, key_funded, key_t, key_last >>

ro_vars == << ro_pc, ro_reward, ro_step_reward, ro_finish_reason, ro_done, ro_calls, ro_step_rewards >>

pt_vars == << pt_file, pt_tracker, pt_last >>

cu_vars == << cu_completed_tasks, cu_failed_tasks, cu_skills, cu_reported, cu_first_completions, cu_last >>

late_vars == << tr_vars, key_vars, ro_vars, pt_vars, cu_vars >>

vars == << voyager_vars, sp_vars, examples_vars, store_vars, ckpt_vars, validator_vars,
           exec_vars, conc_vars, ep_vars, late_vars >>

\* What each object's methods leave alone: the state of the other objects.
outside_voyager == << sp_vars, examples_vars, store_vars, ckpt_vars, validator_vars, exec_vars, conc_vars, ep_vars, late_vars >>
outside_sp == << voyager_vars, examples_vars, store_vars, ckpt_vars, validator_vars, exec_vars, conc_vars, ep_vars, late_vars >>
outside_examples == << voyager_vars, sp_vars, store_vars, ckpt_vars, validator_vars, exec_vars, conc_vars, ep_vars, late_vars >>
outside_store == << voyager_vars, sp_vars, examples_vars, ckpt_vars, validator_vars, exec_vars, conc_vars, ep_vars, late_vars >>
outside_ckpt == << voyager_vars, sp_vars, examples_vars, store_vars, validator_vars, exec_vars, conc_vars, ep_vars, late_vars >>
outside_validator == << voyager_vars, sp_vars, examples_vars, store_vars, ckpt_vars, exec_vars, conc_vars, ep_vars, late_vars >>
outside_exec == << voyager_vars, sp_vars, examples_vars, store_vars, ckpt_vars, validator_vars, conc_vars, ep_vars, late_vars >>
outside_conc == << voyager_vars, sp_vars, examples_vars, store_vars, ckpt_vars, validator_vars, exec_vars, ep_vars, late_vars >>
outside_ep == << voyager_vars, sp_vars, examples_vars, store_vars, ckpt_vars, validator_vars, exec_vars, conc_vars, late_vars >>
outside_tr == << voyager_vars, sp_vars, examples_vars, store_vars, ckpt_vars, validator_vars, exec_vars, conc_vars, ep_vars, key_vars, ro_vars, pt_vars, cu_vars >>
outside_key == << voyager_vars, sp_vars, examples_vars, store_vars, ckpt_vars, validator_vars, exec_vars, conc_vars, ep_vars, tr_vars, ro_vars, pt_vars, cu_vars >>
outside_ro == << voyager_vars, sp_vars, examples_vars, store_vars, ckpt_vars, validator_vars, exec_vars, conc_vars, ep_vars, tr_vars, key_vars, pt_vars, cu_vars >>
outside_pt == << voyager_vars, sp_vars, examples_vars, store_vars, ckpt_vars, validator_vars, exec_vars, conc_vars, ep_vars, tr_vars, key_vars, ro_vars, cu_vars >>
outside_cu == << voyager_vars, sp_vars, examples_vars, store_vars, ckpt_vars, validator_vars, exec_vars, conc_vars, ep_vars, tr_vars, key_vars, ro_vars, pt_vars >>

NoResult == [action |-> "none", reward |-> 0, terminated |-> FALSE]

SPNoCall ==
    [called |-> FALSE, has_receipt |-> FALSE, receipt |-> DummyReceipt,
     raised |-> FALSE, reward |-> 0, before |-> {}]

InitEnvs ==
    /\ t = 0
    /\ protocols_seen = {}
    /\ program_instructions_seen = << >>
    /\ next_skill_id = 0
    /\ result = NoResult
    /\ attempts = << >>
    /\ bonus_paid = [p \in ProtocolNames |-> 0]
    /\ sp_instructions_seen = {}
    /\ sp_calls = 0
    /\ sp_last = SPNoCall
    /\ last_fetched_examples = << >>

\* A manager constructed on a directory that does not exist yet, and the
\* action space built from it (len(self.skills) + len(self.SPECIALS)).
StoreNoCall == [op |-> "none"]

InitEmptyStore ==
    /\ skills_dir = << >>
    /\ skills = << >>
    /\ store_next_skill_id = 0
    /\ action_space_n = 3
    /\ store_last = StoreNoCall

\* The voyager skill manager constructed with resume=False on a new
\* checkpoint directory.
CkptNoCall == [op |-> "none", program_name |-> "", program_code |-> ""]

InitCkpt ==
    /\ ckpt_code = << >>
    /\ ckpt_skills = << >>
    /\ ckpt_last = CkptNoCall

\* SurfpoolEnv.__init__: no context manager, no process.
NoValidator == [gen |-> "none", proc |-> None]

ValidatorNoCall == [op |-> "none", ended |-> "none"]

NoStep == [sent |-> FALSE, delivered |-> FALSE, funded |-> FALSE, has_receipt |-> FALSE,
           done |-> FALSE, possible_success |-> FALSE]

InitValidatorOf(env) ==
    /\ validator_env = env
    /\ validator_cm = NoValidator
    /\ validator_proc = None
    /\ validator_alive = {}
    /\ validator_spawned = 0
    /\ validator_peak = 0
    /\ validator_torn = {}
    /\ validator_funded = FALSE
    /\ validator_step = NoStep
    /\ validator_last = ValidatorNoCall

\* No execution asked for yet.
NoRun == [exit |-> "none", stdout |-> "", stderr |-> ""]

NoValue == [success |-> "absent", has_reason |-> FALSE]

NoExec == [caller |-> "none", run |-> NoRun, block_at_call |-> None, started |-> FALSE,
           command_blockhash |-> None, raised |-> "none", value |-> NoValue]

InitExecOf(manager) ==
    /\ exec_manager = manager
    /\ exec_block = 0
    /\ exec_last = NoExec

\* The two step() coroutines issued on one environment.
Tasks == {1, 2}

NoReturn == [outcome |-> "none", reward |-> 0, terminated |-> FALSE, step |-> 0,
             receipt |-> DummyReceipt]

\* The environment after reset(), with no step() issued yet.
InitConc ==
    /\ conc_t = 0
    /\ conc_protocols_seen = {}
    /\ conc_instructions_seen = << >>
    /\ conc_pc = [k \in Tasks |-> "idle"]
    /\ conc_result = [k \in Tasks |-> NoReturn]
    /\ conc_paid = [protocols |-> 0, instructions |-> 0]

EpNoCall == [op |-> "none", outcome |-> "none", receipt |-> DummyReceipt, reward |-> 0,
             paid |-> << >>, new_instructions |-> << >>,
             protocols_before |-> {}, instructions_before |-> << >>]

InitEp ==
    /\ ep_t = 0
    /\ ep_protocols_seen = {}
    /\ ep_instructions_seen = << >>
    /\ ep_earlier = [protocols |-> {}, instructions |-> << >>]
    /\ ep_last = EpNoCall


\* TrajectoryTracker.__init__: no episode; _episode_counter is the number of
\* episodes started, Len(tr_episodes).
InitTracker ==
    /\ tr_episodes = << >>
    /\ tr_current = 0
    /\ tr_last = [op |-> "none", status |-> "none", recorded |-> 0]


KeyNoCall == [op |-> "none", prompts |-> << >>, executes |-> << >>, signer |-> None]

\* SurfpoolEnv.__init__ draws the first keypair; SolanaVoyagerEnv.__init__
\* hands its public key to the planner, which stores it.
InitKeys ==
    /\ key_made = 1
    /\ key_agent_keypair = 1
    /\ key_planner_pubkey = 1
    /\ key_funded = {}
    /\ key_t = 0
    /\ key_last = KeyNoCall


\* A SimpleExplorer on which rollout() has not been called.
InitRollout ==
    /\ ro_pc = "idle"
    /\ ro_reward = 0
    /\ ro_step_reward = 0
    /\ ro_finish_reason = "none"
    /\ ro_done = FALSE
    /\ ro_calls = 0
    /\ ro_step_rewards = << >>


\* A number as python holds it: total_reward starts as the int 0 and is a
\* float once a float reward was added.
PyInt(n) == [kind |-> "int", value |-> n]
PyFloat(n) == [kind |-> "float", value |-> n]

\* ProgressTracker.__init__ with resume = False: fresh fields, and
\* _init_progress_file leaves progress.csv with its header alone.
NewProgressTracker ==
    [current_iteration |-> 0, total_reward |-> PyInt(0), completed_tasks |-> << >>]

InitProgress ==
    /\ pt_file = << >>
    /\ pt_tracker = NewProgressTracker
    /\ pt_last = [op |-> "init", before |-> NewProgressTracker]


\* A python value the critic may return as its verdict: a bool, or a string.
PyBool(b) == [type |-> "bool", bool |-> b, text |-> ""]
PyStr(s) == [type |-> "str", bool |-> FALSE, text |-> s]

CuNoCall == [op |-> "none", task |-> "none", verdict |-> PyBool(FALSE),
             exhausted |-> FALSE, raised |-> FALSE, stopped_as_success |-> FALSE,
             added |-> FALSE, completed |-> FALSE,
             was_completed |-> FALSE, was_failed |-> FALSE]

\* CurriculumAgent.__init__ and the skill manager with resume = False.
InitCurriculum ==
    /\ cu_completed_tasks = << >>
    /\ cu_failed_tasks = << >>
    /\ cu_skills = {}
    /\ cu_reported = {}
    /\ cu_first_completions = << >>
    /\ cu_last = CuNoCall

InitLate ==
    /\ InitTracker
    /\ InitKeys
    /\ InitRollout
    /\ InitProgress
    /\ InitCurriculum

Init ==
    /\ InitLate
    /\ InitEp
    /\ InitEnvs
    /\ InitEmptyStore
    /\ InitCkpt
    /\ InitValidatorOf("surfpool_env")
    /\ InitExecOf("skill_manager")
    /\ InitConc

\* reset(): a new episode.
Reset ==
    /\ t' = 0
    /\ protocols_seen' = {}
    /\ program_instructions_seen' = << >>
    /\ result' = NoResult
    /\ attempts' = << >>
    /\ bonus_paid' = [p \in ProtocolNames |-> 0]
    /\ UNCHANGED next_skill_id
    /\ UNCHANGED outside_voyager

LastTwo(s) == IF Len(s) > 2 THEN SubSeq(s, Len(s) - 1, Len(s)) ELSE s

\* step(action) with action_type >= len(SPECIALS): run skill action_type - 3.
StepRunSkill(skill_id, response) ==
    LET r == run_skill(skill_id < next_skill_id, response,
                       protocols_seen, program_instructions_seen)
    IN  /\ t < MaxSteps
        /\ t' = t + 1
        /\ protocols_seen' = r.bonus.protocols_seen
        /\ program_instructions_seen' = r.bonus.program_instructions_seen
        /\ result' = [action |-> "run_skill", reward |-> r.bonus.reward,
                      terminated |-> Terminated(t + 1, r.done)]
        /\ attempts' = LastTwo(Append(attempts,
                          [outcome |-> r.outcome, has_receipt |-> r.has_receipt,
                           send |-> IF r.submitted THEN response.send ELSE "none",
                           receipt |-> r.receipt, done |-> r.done,
                           reward |-> r.bonus.reward,
                           protocol_reward |-> r.bonus.protocol_reward,
                           instruction_reward |-> r.bonus.instruction_reward,
                           paid |-> r.bonus.paid,
                           new_instructions |-> r.bonus.new_instructions,
                           logged_error |-> r.bonus.logged_error,
                           terminated |-> Terminated(t + 1, r.done),
                           protocols_before |-> protocols_seen,
                           instructions_before |-> program_instructions_seen]))
        /\ bonus_paid' = [p \in ProtocolNames |->
                            bonus_paid[p] + Cardinality({i \in 1..Len(r.bonus.paid) :
                                                            r.bonus.paid[i] = p})]
        /\ UNCHANGED next_skill_id
        /\ UNCHANGED outside_voyager

\* step(NEW_SKILL): _grow_skill registers one skill when a try succeeds.
StepNewSkill(succeeds) ==
    /\ t < MaxSteps
    /\ t' = t + 1
    /\ next_skill_id' = IF succeeds /\ next_skill_id < MaxSkills
                        THEN next_skill_id + 1 ELSE next_skill_id
    /\ result' = [action |-> "new_skill", reward |-> 0, terminated |-> Terminated(t + 1, FALSE)]
    /\ UNCHANGED << protocols_seen, program_instructions_seen, attempts, bonus_paid >>
    /\ UNCHANGED outside_voyager

\* step(NEW_SKILL) in which planner.propose raises: self.t has moved and
\* step() returns nothing, the exception leaves it.
StepNewSkillRaises ==
    /\ t < MaxSteps
    /\ t' = t + 1
    /\ result' = [action |-> "raised", reward |-> 0, terminated |-> FALSE]
    /\ UNCHANGED << protocols_seen, program_instructions_seen, next_skill_id,
                    attempts, bonus_paid >>
    /\ UNCHANGED outside_voyager

\* step(INSPECT_LIB) and step(FETCH_TX_EXAMPLES): no reward, and the discovery
\* state is not touched.  What FETCH_TX_EXAMPLES stores in
\* last_fetched_examples is followed in SpecExamples.
StepInspect ==
    /\ t < MaxSteps
    /\ t' = t + 1
    /\ result' = [action |-> "inspect_lib", reward |-> 0, terminated |-> Terminated(t + 1, FALSE)]
    /\ UNCHANGED << protocols_seen, program_instructions_seen, next_skill_id,
                    attempts, bonus_paid >>
    /\ UNCHANGED outside_voyager

StepFetchExamples ==
    /\ t < MaxSteps
    /\ t' = t + 1
    /\ result' = [action |-> "fetch_tx_examples", reward |-> 0,
                  terminated |-> Terminated(t + 1, FALSE)]
    /\ UNCHANGED << protocols_seen, program_instructions_seen, next_skill_id,
                    attempts, bonus_paid >>
    /\ UNCHANGED outside_voyager

Next ==
    \/ Reset
    \/ \E skill_id \in 0..MaxSkills :
         \E response \in (IF skill_id < next_skill_id THEN Responses
                          ELSE {Response("none", TRUE, "none", DummyReceipt)}) :
            StepRunSkill(skill_id, response)
    \/ \E succeeds \in BOOLEAN : StepNewSkill(succeeds)
    \/ StepNewSkillRaises
    \/ StepInspect
    \/ StepFetchExamples

Spec == Init /\ [][Next]_vars

(***************************************************************************)
(* The reward of voyager/surfpool_env.py, SurfpoolEnv: step(tx) submits a  *)
(* signed transaction and returns _get_reward of the fetched result.       *)
(***************************************************************************)
\* The records SurfpoolEnv.step can fetch: every instruction has a
\* program_id_index, and an inner group names the top-level instruction it
\* belongs to.
SPInnerChoices ==
    { [groups |-> << >>, null |-> FALSE],
      [groups |-> << >>, null |-> TRUE],
      [groups |-> << [index |-> 0, instructions |-> << Ix(1, D_3) >>] >>, null |-> FALSE],
      [groups |-> << [index |-> 0, instructions |-> << Ix(1, D_3) >>],
                     [index |-> 1, instructions |-> << >>] >>, null |-> FALSE] }

SPReceipts ==
    { [accountKeys |-> k, instructions |-> tl, innerInstructions |-> inn.groups,
       innerNull |-> inn.null, err |-> e] :
        k \in AccountKeyLists,
        tl \in { l \in TopLevelLists : \A i \in DOMAIN l : l[i].programIdIndex # None }
                \cup { << Ix(0, D_2), Ix(0, D_empty) >> },
        inn \in SPInnerChoices, e \in BOOLEAN }

Raised == [raised |-> TRUE, instructions |-> << >>]

\* One {'program_id': ..., 'data': ...} entry; IndexError when the index is
\* outside account_keys, ValueError when the data is not base58.
RECURSIVE SPEntries(_, _, _, _)
SPEntries(account_keys, instructions, i, out) ==
    IF i > Len(instructions) THEN [raised |-> FALSE, instructions |-> out]
    ELSE IF \/ instructions[i].programIdIndex >= Len(account_keys)
            \/ ~B58Decode(instructions[i].data).ok
         THEN Raised
         ELSE SPEntries(account_keys, instructions, i + 1,
                  Append(out, [program_id |-> account_keys[instructions[i].programIdIndex + 1],
                               data |-> B58Decode(instructions[i].data).bytes]))

\* inner_instructions[idx] of the dict {ix.index: ix.instructions}: the last
\* group carrying the index; KeyError when there is none.
InnerOf(inner_instructions, idx) ==
    LET gs == { g \in DOMAIN inner_instructions : inner_instructions[g].index = idx }
    IN  IF gs = {} THEN [found |-> FALSE, instructions |-> << >>]
        ELSE [found |-> TRUE,
              instructions |-> inner_instructions[CHOOSE g \in gs :
                                                    \A h \in gs : h <= g].instructions]

\* _get_ordered_instructions: each top-level instruction followed by its
\* inner instructions.  Any exception leaves it through the caller.
RECURSIVE OrderedFrom(_, _, _)
OrderedFrom(tx_result, idx, ordered_instructions) ==
    IF idx >= Len(tx_result.instructions)
    THEN [raised |-> FALSE, instructions |-> ordered_instructions]
    ELSE LET top == SPEntries(tx_result.accountKeys,
                              << tx_result.instructions[idx + 1] >>, 1, << >>)
             group == InnerOf(tx_result.innerInstructions, idx)
             inner == SPEntries(tx_result.accountKeys, group.instructions, 1, << >>)
         IN  IF top.raised \/ ~group.found \/ inner.raised THEN Raised
             ELSE OrderedFrom(tx_result, idx + 1,
                      ordered_instructions \o top.instructions \o inner.instructions)

get_ordered_instructions(tx_result) ==
    IF tx_result.innerNull THEN Raised ELSE OrderedFrom(tx_result, 0, << >>)

\* The loop of _get_reward: key = (program_id, data[0]); IndexError on
\* empty data, after the keys of the earlier instructions were stored.
RECURSIVE RewardKeys(_, _, _, _)
RewardKeys(ordered_instructions, i, seen, reward) ==
    IF i > Len(ordered_instructions) THEN [raised |-> FALSE, seen |-> seen, reward |-> reward]
    ELSE IF ordered_instructions[i].data = << >>
         THEN [raised |-> TRUE, seen |-> seen, reward |-> 0]
         ELSE LET key == << ordered_instructions[i].program_id,
                            ordered_instructions[i].data[1] >>
              IN  IF key \notin seen
                  THEN RewardKeys(ordered_instructions, i + 1, seen \cup {key}, reward + 1)
                  ELSE RewardKeys(ordered_instructions, i + 1, seen, reward)

\* _get_reward: 0 for a transaction that failed on chain; otherwise 1 per
\* new (program id, first byte) key.  raised: an exception left the method.
get_reward(tx_result, seen) ==
    IF tx_result.err THEN [raised |-> FALSE, seen |-> seen, reward |-> 0]
    ELSE LET ordered == get_ordered_instructions(tx_result)
         IN  IF ordered.raised THEN [raised |-> TRUE, seen |-> seen, reward |-> 0]
             ELSE RewardKeys(ordered.instructions, 1, seen, 0)

\* SurfpoolEnv.reset(): a fresh validator and an empty discovery dict.
SPReset ==
    /\ sp_instructions_seen' = {}
    /\ sp_calls' = 0
    /\ sp_last' = SPNoCall
    /\ UNCHANGED outside_sp

\* SurfpoolEnv.step(tx) when sending, confirming or fetching raises: the
\* error is returned in info with reward 0.
SPStepError ==
    /\ sp_calls < MaxSteps
    /\ sp_calls' = sp_calls + 1
    /\ sp_last' = [called |-> TRUE, has_receipt |-> FALSE, receipt |-> DummyReceipt,
                   raised |-> FALSE, reward |-> 0, before |-> sp_instructions_seen]
    /\ UNCHANGED sp_instructions_seen
    /\ UNCHANGED outside_sp

\* SurfpoolEnv.step(tx) when the transaction result was fetched: the return
\* statement evaluates _get_reward outside the try block.
SPStep(tx_result) ==
    LET r == get_reward(tx_result, sp_instructions_seen)
    IN  /\ sp_calls < MaxSteps
        /\ sp_calls' = sp_calls + 1
        /\ sp_instructions_seen' = r.seen
        /\ sp_last' = [called |-> TRUE, has_receipt |-> TRUE, receipt |-> tx_result,
                       raised |-> r.raised, reward |-> r.reward,
                       before |-> sp_instructions_seen]
        /\ UNCHANGED outside_sp

SPNext ==
    \/ SPReset
    \/ SPStepError
    \/ \E tx_result \in SPReceipts : SPStep(tx_result)

SpecSP == Init /\ [][SPNext]_vars

(***************************************************************************)
(* _fetch_transaction_examples: the instructions of each fetched example   *)
(* transaction, outer and inner, labelled and sorted.                      *)
(***************************************************************************)
\* top-level instructions per example transaction
MaxTop == 2
\* inner instructions one top-level instruction invokes
MaxInner == 2
\* signatures.value[:3]
MaxExamples == 3

\* meta.inner_instructions as the RPC gives it: one group per top-level
\* instruction that invoked something, in ascending index; invoked[i] is
\* the number of instructions top-level instruction i invoked.
RECURSIVE InnerGroups(_, _, _)
InnerGroups(invoked, i, groups) ==
    IF i \notin DOMAIN invoked THEN groups
    ELSE InnerGroups(invoked, i + 1,
             IF invoked[i] = 0 THEN groups
             ELSE Append(groups, [index |-> i, instructions |-> invoked[i]]))

\* The example transactions: n top-level instructions and the inner groups.
ExampleTransactions ==
    UNION { { [outer |-> n, inner |-> InnerGroups(invoked, 0, << >>)] :
                invoked \in [0..(n - 1) -> 0..MaxInner] } : n \in 1..MaxTop }

\* The entries of the outer instructions: id str(outer_idx), depth 0.
\* origin is the instruction the entry was made from: << i >> top-level
\* instruction i, << i, j >> the j-th instruction invoked by i.
OuterEntries(tx) ==
    [k \in 1..tx.outer |-> [id |-> << k - 1 >>, depth |-> 0, origin |-> << k - 1 >>]]

\* The entries of one inner group: id "{outer_idx}.{inner_idx}", outer_idx
\* being the position of the group in meta.inner_instructions.
GroupEntries(outer_idx, inner_group) ==
    [k \in 1..inner_group.instructions |->
        [id |-> << outer_idx, k - 1 >>, depth |-> 1,
         origin |-> << inner_group.index, k - 1 >>]]

RECURSIVE InnerEntries(_, _, _)
InnerEntries(inner_ixs, g, instructions) ==
    IF g > Len(inner_ixs) THEN instructions
    ELSE InnerEntries(inner_ixs, g + 1,
                      instructions \o GroupEntries(g - 1, inner_ixs[g]))

\* Python's comparison of two lists of ints.
ListLess(a, b) ==
    LET SamePrefix(n) == \A m \in 1..n : a[m] = b[m]
    IN  \/ \E k \in 1..Len(a) :
              (k <= Len(b)) /\ SamePrefix(k - 1) /\ (a[k] < b[k])
        \/ (Len(a) < Len(b)) /\ SamePrefix(Len(a))

\* instructions.sort(key=...): a stable sort, by insertion.
RECURSIVE Insert(_, _, _)
Insert(sorted, e, k) ==
    IF k > Len(sorted) THEN Append(sorted, e)
    ELSE IF ListLess(e.id, sorted[k].id)
         THEN SubSeq(sorted, 1, k - 1) \o << e >> \o SubSeq(sorted, k, Len(sorted))
         ELSE Insert(sorted, e, k + 1)

RECURSIVE SortById(_, _, _)
SortById(instructions, k, sorted) ==
    IF k > Len(instructions) THEN sorted
    ELSE SortById(instructions, k + 1, Insert(sorted, instructions[k], 1))

\* The "instructions" of one example.
ExampleInstructions(tx) ==
    SortById(InnerEntries(tx.inner, 1, OuterEntries(tx)), 1, << >>)

ExampleInstructionsOf == [tx \in ExampleTransactions |-> ExampleInstructions(tx)]

\* One fetch per signature: the transaction, or nothing when get_transaction
\* raised or returned no value.
RECURSIVE Examples(_, _, _)
Examples(fetched, i, examples) ==
    IF i > Len(fetched) THEN examples
    ELSE Examples(fetched, i + 1,
                  IF fetched[i].found
                  THEN Append(examples, [instructions |-> ExampleInstructionsOf[fetched[i].tx]])
                  ELSE examples)

Fetches ==
    { [found |-> TRUE, tx |-> tx] : tx \in ExampleTransactions }
        \cup { [found |-> FALSE, tx |-> CHOOSE tx \in ExampleTransactions : TRUE] }

\* _fetch_transaction_examples(program_id) with the signatures fetched: the
\* examples of the first three replace last_fetched_examples.
FetchTransactionExamples(fetched) ==
    /\ last_fetched_examples' = Examples(fetched, 1, << >>)
    /\ UNCHANGED outside_examples

\* Without a program_id, or when get_signatures_for_address raises, an error
\* is returned and the store is left as it is.
FetchTransactionExamplesError ==
    /\ UNCHANGED last_fetched_examples
    /\ UNCHANGED outside_examples

ExamplesNext ==
    \/ \E n \in 0..MaxExamples : \E fetched \in [1..n -> Fetches] :
          FetchTransactionExamples(fetched)
    \/ FetchTransactionExamplesError

SpecExamples == Init /\ [][ExamplesNext]_vars

(***************************************************************************)
(* Vocabulary of the properties.                                           *)
(***************************************************************************)
\* The last skill-run attempt of the episode.
Last == attempts[Len(attempts)]

\* The last step() call ran a skill and got a transaction record.
LastStepHadRecord ==
    result.action = "run_skill" /\ Len(attempts) >= 1 /\ Last.has_receipt

\* The window holds two attempts that each got a transaction record.
TwoRecords ==
    Len(attempts) = 2 /\ attempts[1].has_receipt /\ attempts[2].has_receipt

\* The registry display names a record refers to.
ReferencedNames(r) ==
    { KNOWN_PROGRAM_IDS[k] : k \in Range(r.accountKeys) \cap DOMAIN KNOWN_PROGRAM_IDS }

\* The instructions of a record, top-level and inner.
AllInstructions(r) ==
    Range(r.instructions)
        \cup UNION { Range(r.innerInstructions[g].instructions) :
                        g \in DOMAIN r.innerInstructions }

OutOfRange(r, ix) ==
    ix.programIdIndex # None /\ ix.programIdIndex >= Len(r.accountKeys)

\* The (program id, first byte) pairs occurring in a record, the first byte
\* being that of the payload the data text encodes.
OccurringPairs(r) ==
    { << r.accountKeys[ix.programIdIndex + 1], Hex(Payload(ix.data)[1]) >> :
        ix \in { jx \in AllInstructions(r) :
                    /\ jx.programIdIndex # None
                    /\ ~OutOfRange(r, jx)
                    /\ Payload(jx.data) # << >> } }

\* program_instructions_seen as a set of (program id, discriminator) pairs.
SeenPairs(instructions_seen) ==
    UNION { { << p, d >> : d \in instructions_seen[p] } : p \in DOMAIN instructions_seen }

(***************************************************************************)
(* C1: within one episode, when two skill-run attempts each get a record   *)
(* that refers to the same registry-known protocol, not discovered before  *)
(* the first attempt, the first attempt is paid the protocol bonus for it  *)
(* (once) and the second is paid none for it, whatever the second record   *)
(* is; no protocol is paid for twice in an episode.                        *)
(***************************************************************************)
C1_ProtocolBonusOnce ==
    /\ \A p \in ProtocolNames : bonus_paid[p] = IF p \in protocols_seen THEN 1 ELSE 0
    /\ TwoRecords =>
          \A x \in (ReferencedNames(attempts[1].receipt)
                      \cap ReferencedNames(attempts[2].receipt))
                    \ attempts[1].protocols_before :
             /\ Cardinality({ i \in DOMAIN attempts[1].paid : attempts[1].paid[i] = x }) = 1
             /\ attempts[1].reward >= ProtocolBonus
             /\ x \notin Range(attempts[2].paid)
             /\ attempts[2].protocol_reward
                    = ProtocolBonus * Cardinality(Range(attempts[2].paid) \ {x})

C1_Witness ==
    /\ TwoRecords
    /\ attempts[1].receipt # attempts[2].receipt
    /\ "Jupiter" \in ReferencedNames(attempts[1].receipt)
                        \cap ReferencedNames(attempts[2].receipt)
    /\ "Jupiter" \notin attempts[1].protocols_before
    /\ attempts[1].protocol_reward = ProtocolBonus
    /\ attempts[2].protocol_reward = 0

(***************************************************************************)
(* C2: between two resets every step() keeps every discovered protocol and *)
(* every discovered (program, discriminator) pair, and neither set gets    *)
(* smaller.  (reset() is the one step that leaves t' = 0.)                 *)
(***************************************************************************)
C2_DiscoveryMonotonic ==
    [][ t' # 0 =>
          /\ protocols_seen \subseteq protocols_seen'
          /\ SeenPairs(program_instructions_seen) \subseteq SeenPairs(program_instructions_seen')
          /\ Cardinality(protocols_seen) <= Cardinality(protocols_seen')
          /\ Cardinality(SeenPairs(program_instructions_seen))
                <= Cardinality(SeenPairs(program_instructions_seen')) ]_vars

C2_Witness ==
    /\ TwoRecords
    /\ attempts[1].paid # << >> /\ attempts[2].paid # << >>
    /\ attempts[2].instruction_reward > 0
    /\ attempts[2].instructions_before # << >>
    /\ Cardinality(protocols_seen) = 2

C4_InstructionRewardPerNewPair ==
    LastStepHadRecord =>
       /\ SeenPairs(program_instructions_seen)
             = SeenPairs(Last.instructions_before) \cup OccurringPairs(Last.receipt)
       /\ Last.instruction_reward
             = InstructionBonus * Cardinality(OccurringPairs(Last.receipt)
                                                \ SeenPairs(Last.instructions_before))

(***************************************************************************)
(* C5: the same record submitted a second time in the episode earns reward *)
(* 0 and leaves both discovery sets as the first submission left them.     *)
(***************************************************************************)
C5_ResubmissionIdempotent ==
    (TwoRecords /\ attempts[1].receipt = attempts[2].receipt) =>
       /\ attempts[2].reward = 0
       /\ attempts[2].paid = << >>
       /\ protocols_seen = attempts[2].protocols_before
       /\ program_instructions_seen = attempts[2].instructions_before

C5_Witness ==
    /\ TwoRecords
    /\ attempts[1].receipt = attempts[2].receipt
    /\ attempts[1].protocol_reward > 0
    /\ attempts[1].instruction_reward > 0
    /\ attempts[2].reward = 0
    /\ program_instructions_seen # << >>

(***************************************************************************)
(* C6: for two records A and B submitted in this order from one discovery  *)
(* state, the discovery sets are those that B-then-A gives from the same   *)
(* state, and a protocol both refer to, new in that state, is paid to the  *)
(* record submitted first and not to the other, in either order.           *)
(***************************************************************************)
C6_OrderIndependentSets ==
    TwoRecords =>
       LET A == attempts[1].receipt
           B == attempts[2].receipt
           Bfirst == ExplorationBonus(B, attempts[1].protocols_before,
                                      attempts[1].instructions_before)
           Asecond == ExplorationBonus(A, Bfirst.protocols_seen,
                                       Bfirst.program_instructions_seen)
       IN  /\ protocols_seen = Asecond.protocols_seen
           /\ program_instructions_seen = Asecond.program_instructions_seen
           /\ \A x \in (ReferencedNames(A) \cap ReferencedNames(B))
                         \ attempts[1].protocols_before :
                 /\ x \in Range(attempts[1].paid) /\ x \notin Range(attempts[2].paid)
                 /\ x \in Range(Bfirst.paid) /\ x \notin Range(Asecond.paid)

C6_Witness ==
    /\ TwoRecords
    /\ attempts[1].receipt # attempts[2].receipt
    /\ "Jupiter" \in Range(attempts[1].paid)
    /\ "Jupiter" \in ReferencedNames(attempts[2].receipt)
    /\ "Meteora" \in Range(attempts[2].paid)
    /\ attempts[1].instruction_reward > 0
    /\ attempts[2].instruction_reward > 0

(***************************************************************************)
(* C7: when processing the record raised a parsing exception, the attempt  *)
(* earns reward 0 and neither discovery set is changed.                    *)
(***************************************************************************)
C7_NoUpdateOnParsingException ==
    (LastStepHadRecord /\ Last.logged_error) =>
       /\ result.reward = 0
       /\ protocols_seen = Last.protocols_before
       /\ program_instructions_seen = Last.instructions_before

(***************************************************************************)
(* C8: a record with an instruction whose programIdIndex is outside the    *)
(* account-key list earns reward 0 and changes neither discovery set.      *)
(***************************************************************************)
C8_OutOfRangeIndexNoReward ==
    (LastStepHadRecord /\ \E ix \in AllInstructions(Last.receipt) :
                             OutOfRange(Last.receipt, ix)) =>
       /\ result.reward = 0
       /\ protocols_seen = Last.protocols_before
       /\ program_instructions_seen = Last.instructions_before

(***************************************************************************)
(* C9: an attempt that ends without a transaction record (unknown skill,   *)
(* execution raised or gave no transaction, decoding or signing raised,    *)
(* submission raised) earns reward 0, changes neither discovery set, and   *)
(* terminated is still exactly "step count has reached max_steps".         *)
(***************************************************************************)
C9_NoRecordNoReward ==
    (result.action = "run_skill" /\ ~Last.has_receipt) =>
       /\ Last.outcome \in {"unknown_skill", "skill_exception", "no_tx",
                             "tx_processing_error", "tx_error", "tx_possibly_sent"}
       /\ result.reward = 0
       /\ protocols_seen = Last.protocols_before
       /\ program_instructions_seen = Last.instructions_before
       /\ result.terminated <=> (t >= max_steps)

C9_Witness ==
    /\ result.action = "run_skill"
    /\ Last.outcome = "tx_error"
    /\ Last.done
    /\ t < max_steps
    /\ ~result.terminated
    /\ result.reward = 0

(***************************************************************************)
(* C10: a record whose transaction failed on chain contributes discovery   *)
(* exactly as the same record of a successful transaction does: the reward *)
(* and the discovery state after the step are those the successful record  *)
(* gives from the same state.  Stated of SurfpoolEnv.step of               *)
(* voyager/surfpool_env.py.                                                *)
(***************************************************************************)
C10_FailedRecordCountsAsSuccessful ==
    (sp_last.called /\ sp_last.has_receipt /\ sp_last.receipt.err) =>
       LET successful == get_reward([sp_last.receipt EXCEPT !.err = FALSE], sp_last.before)
       IN  /\ sp_last.raised = successful.raised
           /\ sp_last.reward = successful.reward
           /\ sp_instructions_seen = successful.seen

(***************************************************************************)
(* The same statement of _run_skill of voyager_env.py, where it holds: the *)
(* labeler and the extractor do not read the err field.                    *)
(***************************************************************************)
FailedRecordCountsAsSuccessful_RunSkill ==
    (LastStepHadRecord /\ Last.receipt.err) =>
       LET successful == ExplorationBonus([Last.receipt EXCEPT !.err = FALSE],
                                          Last.protocols_before, Last.instructions_before)
       IN  /\ result.reward = successful.reward
           /\ protocols_seen = successful.protocols_seen
           /\ program_instructions_seen = successful.program_instructions_seen

FailedRecordRewarded_RunSkill ==
    LastStepHadRecord /\ Last.receipt.err /\ Last.protocol_reward > 0
        /\ Last.instruction_reward > 0

(***************************************************************************)
(* SurfpoolEnv.step of voyager/surfpool_env.py: no exception of            *)
(* _get_reward reaches the caller, and a call that raised stored nothing.  *)
(* Neither holds.                                                          *)
(***************************************************************************)
SPStepNeverRaises == ~sp_last.raised

SPRaiseStoresNothing == sp_last.raised => sp_instructions_seen = sp_last.before

\* Its discovery dict only grows between resets.
SPDiscoveryMonotonic ==
    [][ sp_calls' # 0 => sp_instructions_seen \subseteq sp_instructions_seen' ]_vars

(***************************************************************************)
(* C11: in a fresh episode, a record that refers to registry-known         *)
(* programs and whose instructions all carry empty data earns the protocol *)
(* bonus only (1.0 for one protocol): the display names are discovered and *)
(* no (program, discriminator) pair is stored or paid.                     *)
(***************************************************************************)
EmptyDataOnly(r) ==
    /\ AllInstructions(r) # {}
    /\ \A ix \in AllInstructions(r) : ix.data = D_empty

C11_EmptyDataProtocolBonusOnly ==
    (/\ LastStepHadRecord
     /\ Last.protocols_before = {} /\ Last.instructions_before = << >>
     /\ ReferencedNames(Last.receipt) # {}
     /\ EmptyDataOnly(Last.receipt)) =>
       /\ result.reward = ProtocolBonus * Cardinality(ReferencedNames(Last.receipt))
       /\ Last.instruction_reward = 0
       /\ protocols_seen = ReferencedNames(Last.receipt)
       /\ program_instructions_seen = << >>

C11_Witness ==
    /\ LastStepHadRecord
    /\ Last.protocols_before = {} /\ Last.instructions_before = << >>
    /\ Last.receipt.accountKeys = << "JUP6" >>
    /\ Last.receipt.instructions = << Ix(0, D_empty) >>
    /\ result.reward = ProtocolBonus
    /\ protocols_seen = {"Jupiter"}
    /\ program_instructions_seen = << >>

(***************************************************************************)
(* C12: in every fetched example the instructions are in execution order,  *)
(* each top-level instruction i followed by the instructions it invoked,   *)
(* in their order, before top-level instruction i + 1; and an entry        *)
(* labelled "i.j" is the j-th instruction invoked by top-level             *)
(* instruction i.                                                          *)
(***************************************************************************)
C12_FlattenedInExecutionOrder ==
    \A e \in DOMAIN last_fetched_examples :
       LET instructions == last_fetched_examples[e].instructions
       IN  /\ \A k \in 1..(Len(instructions) - 1) :
                 ListLess(instructions[k].origin, instructions[k + 1].origin)
           /\ \A k \in DOMAIN instructions : instructions[k].id = instructions[k].origin

\* The example of the text: top-level 0 invoked two instructions, top-level
\* 1 none; the order is 0, 0.0, 0.1, 1.
ExampleOfTextInOrder ==
    /\ Len(last_fetched_examples) = 1
    /\ Len(last_fetched_examples[1].instructions) = 4
    /\ [k \in 1..4 |-> last_fetched_examples[1].instructions[k].origin]
          = << << 0 >>, << 0, 0 >>, << 0, 1 >>, << 1 >> >>

(***************************************************************************)
(* C13, as stated: after every step every program that is a key of the     *)
(* discovered-instruction set is represented, by its registry display      *)
(* name, in the discovered-protocol set.                                   *)
(***************************************************************************)
C13_EveryInstructionProgramIsProtocol ==
    \A p \in DOMAIN program_instructions_seen :
        /\ p \in DOMAIN KNOWN_PROGRAM_IDS
        /\ KNOWN_PROGRAM_IDS[p] \in protocols_seen

(***************************************************************************)
(* C13, amended: after every step every registry-known program that is a   *)
(* key of the discovered-instruction set has its display name in the       *)
(* discovered-protocol set.  A program that is not in the registry can be  *)
(* a key of the instruction set with nothing in the protocol set, and a    *)
(* protocol can be discovered with no instruction of its programs.         *)
(***************************************************************************)
C13_KnownInstructionProgramIsProtocol ==
    \A p \in DOMAIN program_instructions_seen \cap DOMAIN KNOWN_PROGRAM_IDS :
        KNOWN_PROGRAM_IDS[p] \in protocols_seen

C13_Witness ==
    /\ "LBUZ" \in DOMAIN program_instructions_seen
    /\ "SYS1" \in DOMAIN program_instructions_seen
    /\ protocols_seen = {"Jupiter", "Meteora"}
    /\ "JUP6" \notin DOMAIN program_instructions_seen
    /\ "JUP4" \notin DOMAIN program_instructions_seen

\* ---------------------------------------------------------------------------
\* The skill store: src/skill_manager/ts_skill_manager.py, and the growth loop
\* of src/voyager_env.py that writes to it.
\*
\* A directory is a function from the names of its .ts files to their
\* contents. f"skill_{skill_id}.ts" is << "skill", skill_id >> and
\* f"{name}.ts" is << name, None >>.
\* ---------------------------------------------------------------------------

MaxStoreSkills == 2
NumSpecials == 3
CONFIG_MAX_LLM_SKILL_TRIES == 3

Codes == {"a", "b"}

SkillFile(skill_id) == << "skill", skill_id >>

NameFile(name) == << name, None >>

\* open(file_path, "w") followed by f.write(code): the file is created or
\* its previous contents are replaced.
WriteFile(dir, file, code) ==
    [f \in (DOMAIN dir) \cup {file} |-> IF f = file THEN code ELSE dir[f]]

Put(map, key, value) ==
    [k \in (DOMAIN map) \cup {key} |-> IF k = key THEN value ELSE map[k]]

\* os.listdir(): the entries of the directory in an order the file system
\* chooses.
Listings(dir) ==
    { l \in [1..Cardinality(DOMAIN dir) -> DOMAIN dir] :
        \A i, j \in DOMAIN l : i # j => l[i] # l[j] }

\* __init__ and _load_existing_skills: every .ts file gets the next id, in
\* listing order.
load_existing_skills(dir, listing) ==
    [dir |-> dir,
     skills |-> [skill_id \in 0..(Len(listing) - 1) |-> listing[skill_id + 1]],
     next_skill_id |-> Len(listing)]

RegisterMutReuseId(store, code) ==
    LET skill_id == IF store.next_skill_id = 0 THEN 0 ELSE store.next_skill_id - 1
    IN  [store |-> [dir |-> WriteFile(store.dir, SkillFile(skill_id), code),
                    skills |-> Put(store.skills, skill_id, SkillFile(skill_id)),
                    next_skill_id |-> store.next_skill_id + 1],
         skill_id |-> skill_id]

register(store, code) ==
    LET skill_id == store.next_skill_id
    IN  [store |-> [dir |-> WriteFile(store.dir, SkillFile(skill_id), code),
                    skills |-> Put(store.skills, skill_id, SkillFile(skill_id)),
                    next_skill_id |-> store.next_skill_id + 1],
         skill_id |-> skill_id]

save_skill(store, name, code) ==
    [store EXCEPT !.dir = WriteFile(@, NameFile(name), code)]

\* One pass of the loop of _grow_skill, by what its calls do:
\*   propose_quit         the breakpoint inside planner.propose ends with the
\*                        debugger's quit; propose is outside the try
\*   execute_raises       execute_skill raises (the manager's own execute_skill
\*                        takes no agent_pubkey keyword) and the breakpoint of
\*                        the handler is continued
\*   execute_raises_quit  the same, and the breakpoint ends with quit
\*   bad_transaction      the result carries no decodable transaction
\*   accepted             the result carries a transaction
Retried == {"execute_raises", "bad_transaction"}

Attempt(code, outcome) == [code |-> code, outcome |-> outcome]

Retries == { Attempt(c, o) : c \in Codes, o \in Retried }

Endings == { Attempt("a", "propose_quit") } \cup
           { Attempt(c, o) : c \in Codes, o \in {"execute_raises_quit", "accepted"} }

\* What the collaborators do over one call of _grow_skill: passes that are
\* retried, closed by the pass that ends the call or by the last allowed pass.
Plans ==
    UNION { { << a >> : a \in Endings } ,
            { << a, b >> : a \in Retries, b \in Endings } ,
            { << a, b, c >> : a \in Retries, b \in Retries, c \in Endings \cup Retries } }

\* last_error = None, in the shape of the error reports << kind, attempt >>.
NoError == << "none", 0 >>

GrowReturn(store, status, proposals, last_error, new_skill_id) ==
    [store |-> store, status |-> status, proposals |-> proposals,
     last_error |-> last_error, new_skill_id |-> new_skill_id, errors |-> << >>]

\* a failed pass that leaves last_error as it found it, once it is set
FailureDetailMutKeepsFirst(kind, i, last_error) ==
    IF last_error[1] = "none" THEN << kind, i >> ELSE last_error

\* last_error = f"...{e}" in a failed pass: the detail of pass i, whatever
\* last_error held.
failure_detail(kind, i, last_error) == << kind, i >>

RECURSIVE grow_loop(_, _, _, _)
\* errors lists, pass by pass, the error each planner.propose call was given.
grow_loop(store, plan, i, last_error) ==
    IF i > CONFIG_MAX_LLM_SKILL_TRIES
    THEN GrowReturn(store, "failed", i - 1, last_error, None)
    ELSE LET saved == save_skill(store, "new_skill", plan[i].code)
             rest ==
               CASE plan[i].outcome = "propose_quit" ->
                      GrowReturn(store, "raised", i, last_error, None)
                 [] plan[i].outcome = "execute_raises" ->
                      grow_loop(saved, plan, i + 1,
                                failure_detail("runtime", i, last_error))
                 [] plan[i].outcome = "execute_raises_quit" ->
                      GrowReturn(saved, "raised", i, last_error, None)
                 [] plan[i].outcome = "bad_transaction" ->
                      grow_loop(saved, plan, i + 1,
                                failure_detail("deserialize", i, last_error))
                 [] plan[i].outcome = "accepted" ->
                      LET r == register(saved, plan[i].code)
                      IN  GrowReturn(r.store, "success", i, last_error, r.skill_id)
         IN  [rest EXCEPT !.errors = << last_error >> \o @]

\* The reward _grow_skill returns next to info, in half units: 0.0 at each of
\* its three return statements.  A call that ends by an exception returns
\* none.
grow_reward(status) == IF status = "raised" THEN None ELSE 0

grow_skill(store, has_observation, plan) ==
    IF ~has_observation
    THEN GrowReturn(store, "no_observation", 0, NoError, None)
    ELSE grow_loop(store, plan, 1, NoError)

\* The live manager.
Store == [dir |-> skills_dir, skills |-> skills, next_skill_id |-> store_next_skill_id]

SetStore(store) ==
    /\ skills_dir' = store.dir
    /\ skills' = store.skills
    /\ store_next_skill_id' = store.next_skill_id

StoreFiles == { SkillFile(i) : i \in 0..(MaxStoreSkills - 1) } \cup { NameFile("new_skill") }

\* The directories a manager may be constructed on: any of the files, written
\* before the manager existed.
InitialDirs == UNION { [files -> {"a"}] : files \in SUBSET StoreFiles }

StoreCall(op, skill_id, status, proposals, last_error) ==
    [op |-> op, skill_id |-> skill_id, status |-> status, proposals |-> proposals,
     last_error |-> last_error]

\* SolanaVoyagerEnv.__init__ on a directory: the manager is built and the
\* action space is sized from it.
StoreInit ==
    /\ InitLate
    /\ InitEp
    /\ InitEnvs
    /\ InitCkpt
    /\ InitValidatorOf("surfpool_env")
    /\ InitExecOf("skill_manager")
    /\ InitConc
    /\ \E dir \in InitialDirs : \E listing \in Listings(dir) :
        LET store == load_existing_skills(dir, listing)
        IN  /\ skills_dir = store.dir
            /\ skills = store.skills
            /\ store_next_skill_id = store.next_skill_id
            /\ action_space_n = Len(listing) + NumSpecials
    /\ store_last = StoreNoCall

\* A later process constructs the environment on the same directory.
Construct ==
    \E listing \in Listings(skills_dir) :
        /\ SetStore(load_existing_skills(skills_dir, listing))
        /\ action_space_n' = Len(listing) + NumSpecials
        /\ store_last' = StoreCall("construct", None, "none", 0, NoError)
        /\ UNCHANGED outside_store

\* skills.register(code) called on the manager.
Register(code) ==
    /\ store_next_skill_id < MaxStoreSkills
    /\ LET r == register(Store, code)
       IN  /\ SetStore(r.store)
           /\ store_last' = StoreCall("register", r.skill_id, "none", 0, NoError)
    /\ UNCHANGED action_space_n
    /\ UNCHANGED outside_store

\* The NEW_SKILL action: _grow_skill, with _update_action_space on success.
GrowSkill(has_observation, plan) ==
    /\ store_next_skill_id < MaxStoreSkills
    /\ LET g == grow_skill(Store, has_observation, plan)
       IN  /\ SetStore(g.store)
           /\ action_space_n' = IF g.status = "success"
                                THEN Cardinality(DOMAIN g.store.skills) + NumSpecials
                                ELSE action_space_n
           /\ store_last' = [op |-> "grow", skill_id |-> g.new_skill_id,
                              status |-> g.status, proposals |-> g.proposals,
                              last_error |-> g.last_error,
                              errors |-> g.errors,
                              reward |-> grow_reward(g.status)]
    /\ UNCHANGED outside_store

StoreNext ==
    \/ Construct
    \/ \E code \in Codes : Register(code)
    \/ \E has_observation \in BOOLEAN : \E plan \in Plans : GrowSkill(has_observation, plan)

SpecStore == StoreInit /\ [][StoreNext]_vars

\* ---------------------------------------------------------------------------
\* Properties of the skill store.
\* ---------------------------------------------------------------------------

\* The last call assigned an id.
Assigned == store_last.op \in {"register", "grow"} /\ store_last.skill_id # None

\* C14: over the life of a manager the ids it holds are 0..next_skill_id-1;
\* a call that assigns an id assigns next_skill_id, which is above every id held
\* (a registration on a manager that loaded nothing returns 0, the next 1, and
\* so on), and no call of the manager changes the file any held id maps to.
C14_IdsIncreasingNeverReused ==
    [][ /\ DOMAIN skills = 0..(store_next_skill_id - 1)
        /\ store_last'.op # "construct" =>
            /\ \A skill_id \in DOMAIN skills :
                skill_id \in DOMAIN skills' /\ skills'[skill_id] = skills[skill_id]
            /\ IF store_last'.skill_id # None
               THEN /\ store_last'.skill_id = store_next_skill_id
                    /\ \A skill_id \in DOMAIN skills : skill_id < store_last'.skill_id
                    /\ DOMAIN skills' = DOMAIN skills \cup {store_last'.skill_id}
                    /\ store_next_skill_id' = store_next_skill_id + 1
               ELSE /\ DOMAIN skills' = DOMAIN skills
                    /\ store_next_skill_id' = store_next_skill_id ]_vars

\* A manager that loaded nothing has registered twice: ids 0 and 1.
C14_Witness ==
    /\ store_last.op = "register"
    /\ store_last.skill_id = 1
    /\ skills = (0 :> SkillFile(0) @@ 1 :> SkillFile(1))
    /\ DOMAIN skills_dir = {SkillFile(0), SkillFile(1)}

\* C15: a register call never writes to the file a held id maps to, on
\* whatever directory the manager was constructed.
C15_RegisterNeverOverwrites ==
    [][ store_last'.op = "register" =>
            \A skill_id \in DOMAIN skills :
                /\ skills[skill_id] # SkillFile(store_last'.skill_id)
                /\ skills_dir'[skills[skill_id]] = skills_dir[skills[skill_id]] ]_vars

\* The same, for a manager whose directory holds no skill_k.ts with k at or
\* above next_skill_id.
RegisterNeverOverwritesBelowCounter ==
    [][ /\ store_last'.op = "register"
        /\ \A k \in 0..MaxStoreSkills :
              SkillFile(k) \in DOMAIN skills_dir => k < store_next_skill_id
        => \A skill_id \in DOMAIN skills :
               skills[skill_id] # SkillFile(store_last'.skill_id) ]_vars

\* register has written skill_1.ts, the file id 0 was loaded from.
RegisterOverwroteLoadedFile ==
    /\ store_last.op = "register"
    /\ store_last.skill_id = 1
    /\ skills = (0 :> SkillFile(1) @@ 1 :> SkillFile(1))
    /\ skills_dir[SkillFile(1)] = "b"

\* Every file of the directory was registered by the live manager under the
\* id its name encodes.
AllRegisteredHere ==
    /\ \A skill_id \in DOMAIN skills : skills[skill_id] = SkillFile(skill_id)
    /\ DOMAIN skills_dir = Range(skills)

\* C16: a manager constructed on the directory of a manager that registered
\* every skill in it holds the same number of skills and maps every id to the
\* same source as the manager before it.
C16_IdsConsistentAcrossRestart ==
    [][ store_last'.op = "construct" /\ AllRegisteredHere =>
            /\ DOMAIN skills' = DOMAIN skills
            /\ \A skill_id \in DOMAIN skills :
                  skills_dir'[skills'[skill_id]] = skills_dir[skills[skill_id]] ]_vars

\* The same for a directory of at most one skill.
RestartConsistentUpToOneSkill ==
    [][ /\ store_last'.op = "construct"
        /\ AllRegisteredHere
        /\ store_next_skill_id <= 1
        => skills' = skills /\ skills_dir' = skills_dir ]_vars

\* The number of skills does survive the restart.
RestartKeepsCount ==
    [][ store_last'.op = "construct" /\ AllRegisteredHere =>
            DOMAIN skills' = DOMAIN skills ]_vars

\* After a restart id 0 maps to the source that was registered as id 1.
RestartSwappedIds ==
    /\ store_last.op = "construct"
    /\ skills = (0 :> SkillFile(1) @@ 1 :> SkillFile(0))
    /\ skills_dir = (SkillFile(0) :> "a" @@ SkillFile(1) :> "b")

\* C17: a growth loop that ends in failure leaves the directory and the id
\* map as they were; one that ends in acceptance adds exactly one id and
\* exactly one file (so a manager constructed later loads exactly one more
\* skill) and changes no file that was there.
C17_GrowthLeavesNothingPartial ==
    [][ store_last'.op = "grow" =>
            /\ store_last'.status = "failed" =>
                  skills_dir' = skills_dir /\ skills' = skills
            /\ store_last'.status = "success" =>
                  /\ Cardinality(DOMAIN skills') = Cardinality(DOMAIN skills) + 1
                  /\ Cardinality(DOMAIN skills_dir') = Cardinality(DOMAIN skills_dir) + 1
                  /\ \A f \in DOMAIN skills_dir : skills_dir'[f] = skills_dir[f] ]_vars

\* What the loop does keep to: the id map changes only on acceptance, by the
\* one registered id, and no file but new_skill.ts and the registered one is
\* created or written.
GrowthTouchesOnlyNewSkillAndRegistered ==
    [][ store_last'.op = "grow" =>
            /\ store_last'.status # "success" => skills' = skills
            /\ store_last'.status = "success" =>
                  skills' = Put(skills, store_last'.skill_id, SkillFile(store_last'.skill_id))
            /\ \A f \in (DOMAIN skills_dir') \cup (DOMAIN skills_dir) :
                  \/ f = NameFile("new_skill")
                  \/ store_last'.status = "success" /\ f = SkillFile(store_last'.skill_id)
                  \/ /\ f \in DOMAIN skills_dir
                     /\ f \in DOMAIN skills_dir'
                     /\ skills_dir'[f] = skills_dir[f] ]_vars

\* A failed loop on an empty directory has left new_skill.ts behind.
FailedGrowthLeftFile ==
    /\ store_last.op = "grow"
    /\ store_last.status = "failed"
    /\ skills = << >>
    /\ DOMAIN skills_dir = {NameFile("new_skill")}

\* An accepted loop on an empty directory has left two files for one skill.
AcceptedGrowthLeftTwoFiles ==
    /\ store_last.op = "grow"
    /\ store_last.status = "success"
    /\ skills = (0 :> SkillFile(0))
    /\ DOMAIN skills_dir = {NameFile("new_skill"), SkillFile(0)}

\* The two outcomes of a NEW_SKILL action: success with exactly one skill
\* registered, or failure after the last allowed proposal, carrying that
\* attempt's error, with no skill registered and the action space as it was.
GrowthSucceeded ==
    /\ store_last'.status = "success"
    /\ Cardinality(DOMAIN skills') = Cardinality(DOMAIN skills) + 1
    /\ store_last'.skill_id \in (DOMAIN skills') \ (DOMAIN skills)

GrowthExhausted ==
    /\ store_last'.status = "failed"
    /\ store_last'.proposals = CONFIG_MAX_LLM_SKILL_TRIES
    /\ store_last'.last_error[2] = CONFIG_MAX_LLM_SKILL_TRIES
    /\ skills' = skills
    /\ action_space_n' = action_space_n

\* C18: every NEW_SKILL action asks for at most 3 proposals and ends in one
\* of the two outcomes.
C18_GrowthBoundedTwoOutcomes ==
    [][ store_last'.op = "grow" =>
            /\ store_last'.proposals <= CONFIG_MAX_LLM_SKILL_TRIES
            /\ GrowthSucceeded \/ GrowthExhausted ]_vars

\* The bound on the proposals holds for every call.
GrowthAtMostThreeProposals ==
    store_last.op = "grow" => store_last.proposals <= CONFIG_MAX_LLM_SKILL_TRIES

\* A call that returns a status returns one of the two outcomes, and on
\* success the action space has one more action.
GrowthReturnedStatusIsOneOfTwo ==
    [][ store_last'.op = "grow" /\ store_last'.status \in {"success", "failed"} =>
            /\ GrowthSucceeded \/ GrowthExhausted
            /\ store_last'.status = "success" =>
                  action_space_n' = Cardinality(DOMAIN skills') + NumSpecials ]_vars

\* The call was left by the debugger's exception after the second proposal.
GrowthRaised ==
    /\ store_last.op = "grow"
    /\ store_last.status = "raised"
    /\ store_last.proposals = 2

\* The call returned without asking for a proposal.
GrowthWithoutObservation ==
    /\ store_last.op = "grow"
    /\ store_last.status = "no_observation"
    /\ store_last.proposals = 0

\* ---------------------------------------------------------------------------
\* The voyager skill manager: src/voyager/skill_manager/ts_skill_manager.py
\* add_new_skill, and the writeSkill tool of src/voyager/simple_explorer.py.
\* File names are the texts the code formats.
\* ---------------------------------------------------------------------------

MaxCkptFiles == 3

ProgramNames == {"swap", "swapV2"}

\* f"{program_name}.ts"
CodeFile(program_name) == program_name \o ".ts"

\* f"{program_name}V{i}"
Versioned(program_name, i) == program_name \o "V" \o ToString(i)

\* i = 2; while f"{program_name}V{i}.ts" in os.listdir(...): i += 1
RECURSIVE FirstFreeVersion(_, _, _)
FirstFreeVersion(files, program_name, i) ==
    IF CodeFile(Versioned(program_name, i)) \in DOMAIN files
    THEN FirstFreeVersion(files, program_name, i + 1)
    ELSE i

add_new_skill(ckpt, program_name, program_code) ==
    LET dumped_program_name ==
            IF program_name \in DOMAIN ckpt.skills
            THEN Versioned(program_name, FirstFreeVersion(ckpt.code, program_name, 2))
            ELSE program_name
    IN  [skills |-> Put(ckpt.skills, program_name, program_code),
         code |-> WriteFile(ckpt.code, CodeFile(dumped_program_name), program_code)]

\* writeSkill: the file {skill_name}.ts is written directly, then
\* add_new_skill registers the skill.
write_skill(ckpt, skill_name, skill_code) ==
    add_new_skill([skills |-> ckpt.skills,
                   code |-> WriteFile(ckpt.code, CodeFile(skill_name), skill_code)],
                  skill_name, skill_code)

Ckpt == [skills |-> ckpt_skills, code |-> ckpt_code]

CkptCall(op, program_name, program_code) ==
    [op |-> op, program_name |-> program_name, program_code |-> program_code]

AddNewSkill(program_name, program_code) ==
    /\ Cardinality(DOMAIN ckpt_code) < MaxCkptFiles
    /\ LET c == add_new_skill(Ckpt, program_name, program_code)
       IN  ckpt_skills' = c.skills /\ ckpt_code' = c.code
    /\ ckpt_last' = CkptCall("add_new_skill", program_name, program_code)
    /\ UNCHANGED outside_ckpt

WriteSkill(skill_name, skill_code) ==
    /\ Cardinality(DOMAIN ckpt_code) < MaxCkptFiles
    /\ LET c == write_skill(Ckpt, skill_name, skill_code)
       IN  ckpt_skills' = c.skills /\ ckpt_code' = c.code
    /\ ckpt_last' = CkptCall("writeSkill", skill_name, skill_code)
    /\ UNCHANGED outside_ckpt

CkptNext ==
    \/ \E n \in ProgramNames : \E c \in Codes : AddNewSkill(n, c)
    \/ \E n \in ProgramNames : \E c \in Codes : WriteSkill(n, c)

SpecCkpt == Init /\ [][CkptNext]_vars

\* C19: a call that registers or writes a skill under a name the manager
\* already holds changes no file that existed, and creates a new file that
\* holds the new source.
C19_SameNameNeverOverwrites ==
    [][ ckpt_last'.op # "none" /\ ckpt_last'.program_name \in DOMAIN ckpt_skills =>
            /\ \A f \in DOMAIN ckpt_code :
                  f \in DOMAIN ckpt_code' /\ ckpt_code'[f] = ckpt_code[f]
            /\ \E f \in (DOMAIN ckpt_code') \ (DOMAIN ckpt_code) :
                  ckpt_code'[f] = ckpt_last'.program_code ]_vars

\* add_new_skill by itself keeps to it.
AddNewSkillSameNameNeverOverwrites ==
    [][ ckpt_last'.op = "add_new_skill" /\ ckpt_last'.program_name \in DOMAIN ckpt_skills =>
            /\ \A f \in DOMAIN ckpt_code :
                  f \in DOMAIN ckpt_code' /\ ckpt_code'[f] = ckpt_code[f]
            /\ \E f \in (DOMAIN ckpt_code') \ (DOMAIN ckpt_code) :
                  ckpt_code'[f] = ckpt_last'.program_code ]_vars

\* add_new_skill under a name the manager does not hold writes no file that
\* existed. It does not hold: "swapV2" is written over the second version
\* of "swap".
AddNewSkillNewNameNeverOverwrites ==
    [][ ckpt_last'.op = "add_new_skill" /\ ckpt_last'.program_name \notin DOMAIN ckpt_skills =>
            \A f \in DOMAIN ckpt_code : ckpt_code'[f] = ckpt_code[f] ]_vars

\* writeSkill("swap", "b") after "swap" was written with "a": the first
\* source is in no file.
WriteSkillLostOriginal ==
    /\ ckpt_last = CkptCall("writeSkill", "swap", "b")
    /\ ckpt_code = ("swap.ts" :> "b" @@ "swapV2.ts" :> "b")

\* ---------------------------------------------------------------------------
\* The validator life cycle: _surfpool_validator, SurfpoolEnv.reset and
\* SurfpoolEnv.close of src/surfpool_env.py and src/voyager/surfpool_env.py.
\*
\* validator_cm.gen is the state of the generator behind the context manager:
\* "entering" while it waits for the ready line, "entered" while it is
\* suspended at its yield, "finished" once it has run
\* to its end or raised; validator_cm.proc is the process it launched.
\* Processes are numbered in the order they are spawned.
\* ---------------------------------------------------------------------------

MaxSpawns == 5

ValidatorEnvs == {"surfpool_env", "voyager.surfpool_env"}

Max(a, b) == IF a >= b THEN a ELSE b

Validator == [cm |-> validator_cm, proc |-> validator_proc, alive |-> validator_alive,
              spawned |-> validator_spawned, peak |-> validator_peak,
              torn |-> validator_torn, funded |-> validator_funded]

\* What the process does while it is being stopped: it exits on SIGTERM
\* within the 8 seconds ("terminated"), it does not ("killed"), it had exited
\* and its return code is known ("exited"), or it had exited, its return code
\* is not known yet and os.killpg finds no process group ("lookup_error").
StopOutcomes == {"terminated", "killed", "exited", "lookup_error"}

PossibleStop(v, stop) ==
    IF v.cm.gen = "entered"
    THEN IF v.cm.proc \in v.alive
         THEN stop \in {"terminated", "killed"}
         ELSE stop \in {"exited", "lookup_error"}
    ELSE stop = "exited"

FinallyMutNoKill(env, stop) ==
    [signals |-> IF stop \in {"terminated", "killed"} THEN << "SIGTERM" >> ELSE << >>,
     raised |-> (stop = "lookup_error" /\ env = "surfpool_env")]

\* The finally block of _surfpool_validator: the signals it gets delivered
\* to the process group and whether it is left by an exception.
finally_block(env, stop) ==
    CASE stop = "exited" -> [signals |-> << >>, raised |-> FALSE]
      [] stop = "terminated" -> [signals |-> << "SIGTERM" >>, raised |-> FALSE]
      [] stop = "killed" -> [signals |-> << "SIGTERM", "SIGKILL" >>, raised |-> FALSE]
      [] stop = "lookup_error" -> [signals |-> << >>, raised |-> (env = "surfpool_env")]

\* Whether the process is dead once the block has run: it had exited, it
\* got the SIGTERM it exits on, or it got SIGKILL.
DeadAfter(stop, signals) ==
    \/ stop \in {"exited", "lookup_error"}
    \/ stop = "terminated" /\ "SIGTERM" \in Range(signals)
    \/ "SIGKILL" \in Range(signals)

\* One run of the block on process pid of v.
Torn(env, v, pid, stop) ==
    LET f == finally_block(env, stop)
    IN  [v |-> [v EXCEPT !.alive = IF DeadAfter(stop, f.signals) THEN @ \ {pid} ELSE @,
                         !.torn = @ \cup {[proc |-> pid, stop |-> stop,
                                           signals |-> f.signals]}],
         raised |-> f.raised]

AexitMutLeavesRunning(env, v, stop) ==
    [v |-> [v EXCEPT !.cm = [gen |-> "finished", proc |-> v.cm.proc]], raised |-> FALSE]

\* _validator_cm.__aexit__(None, None, None): the generator is resumed into
\* its finally block; a generator that has finished is left alone.
aexit(env, v, stop) ==
    IF v.cm.gen = "entered"
    THEN LET torn == Torn(env, v, v.cm.proc, stop)
         IN  [v |-> [torn.v EXCEPT !.cm = [gen |-> "finished", proc |-> v.cm.proc]],
              raised |-> torn.raised]
    ELSE [v |-> v, raised |-> FALSE]

\* _surfpool_validator(rpc_url).__aenter__(): "not_found" when surfpool is not
\* on the PATH, "exited_before_ready" when the process closes its output
\* before the ready line, "interrupted" when an exception reaches the wait
\* for the ready line while the process runs, "silent" when the process
\* neither exits nor prints the ready line, "ready" otherwise.
LaunchOutcomes == {"not_found", "exited_before_ready", "interrupted", "silent", "ready"}

PossibleLaunchStop(launch, launch_stop) ==
    CASE launch = "exited_before_ready" -> launch_stop \in {"exited", "lookup_error"}
      [] launch = "interrupted" -> launch_stop \in {"terminated", "killed"}
      [] OTHER -> launch_stop = "exited"

aenter(env, v, launch, launch_stop) ==
    LET pid == v.spawned + 1
        running == v.alive \cup {pid}
        spawned == [v EXCEPT !.spawned = pid,
                             !.alive = running,
                             !.peak = Max(@, Cardinality(running))]
    IN  CASE launch = "not_found" ->
                [v |-> [v EXCEPT !.cm = [gen |-> "finished", proc |-> None]],
                 raised |-> TRUE, returns |-> TRUE]
          [] launch = "exited_before_ready" ->
                [v |-> [Torn(env, [spawned EXCEPT !.alive = v.alive], pid, launch_stop).v
                            EXCEPT !.cm = [gen |-> "finished", proc |-> pid]],
                 raised |-> TRUE, returns |-> TRUE]
          [] launch = "interrupted" ->
                [v |-> [Torn(env, spawned, pid, launch_stop).v
                            EXCEPT !.cm = [gen |-> "finished", proc |-> pid]],
                 raised |-> TRUE, returns |-> TRUE]
          [] launch = "silent" ->
                [v |-> [spawned EXCEPT !.cm = [gen |-> "entering", proc |-> pid]],
                 raised |-> FALSE, returns |-> FALSE]
          [] launch = "ready" ->
                [v |-> [spawned EXCEPT !.cm = [gen |-> "entered", proc |-> pid],
                                       !.proc = pid],
                 raised |-> FALSE, returns |-> TRUE]

ResetOutcome(stop, launch, launch_stop, airdrop_ok) ==
    [stop |-> stop, launch |-> launch, launch_stop |-> launch_stop,
     airdrop_ok |-> airdrop_ok]

ResetOutcomes ==
    { ResetOutcome(s, l, ls, a) :
        s \in StopOutcomes, l \in LaunchOutcomes, ls \in StopOutcomes, a \in BOOLEAN }

\* reset(): the previous context manager is exited, a new one is created and
\* entered, the agent is funded.
reset(env, v, o) ==
    LET start == [v EXCEPT !.peak = Cardinality(v.alive), !.torn = {}]
        stopped == IF v.cm.gen # "none"
                   THEN aexit(env, start, o.stop)
                   ELSE [v |-> start, raised |-> FALSE]
        launched == aenter(env, stopped.v, o.launch, o.launch_stop)
    IN  IF stopped.raised /\ env = "surfpool_env"
        THEN [v |-> stopped.v, ended |-> "stop_raised"]
        ELSE IF ~launched.returns
        THEN [v |-> launched.v, ended |-> "never_returns"]
        ELSE IF launched.raised
        THEN [v |-> launched.v, ended |-> "launch_raised"]
        ELSE [v |-> [launched.v EXCEPT !.funded = o.airdrop_ok],
              ended |-> IF o.airdrop_ok THEN "observation" ELSE "airdrop_failed"]

\* close()
close(env, v, stop) ==
    LET start == [v EXCEPT !.peak = Cardinality(v.alive), !.torn = {}]
        stopped == aexit(env, start, stop)
    IN  IF v.cm.gen = "none"
        THEN [v |-> start, ended |-> "closed"]
        ELSE IF stopped.raised
        THEN [v |-> stopped.v, ended |-> "stop_raised"]
        ELSE [v |-> [stopped.v EXCEPT !.cm = NoValidator, !.proc = None], ended |-> "closed"]

\* A call that never returns keeps its caller: nothing more is called.
Returned == validator_last.ended # "never_returns"

SetValidator(v) ==
    /\ validator_cm' = v.cm
    /\ validator_proc' = v.proc
    /\ validator_alive' = v.alive
    /\ validator_spawned' = v.spawned
    /\ validator_peak' = v.peak
    /\ validator_torn' = v.torn
    /\ validator_funded' = v.funded

ValidatorInit ==
    /\ InitLate
    /\ InitEp
    /\ InitEnvs
    /\ InitEmptyStore
    /\ InitCkpt
    /\ InitExecOf("skill_manager")
    /\ InitConc
    /\ \E env \in ValidatorEnvs : InitValidatorOf(env)

ValidatorReset(o) ==
    /\ Returned
    /\ validator_spawned < MaxSpawns
    /\ PossibleStop(Validator, o.stop)
    /\ PossibleLaunchStop(o.launch, o.launch_stop)
    /\ LET r == reset(validator_env, Validator, o)
       IN  /\ SetValidator(r.v)
           /\ validator_last' = [op |-> "reset", ended |-> r.ended]
    /\ UNCHANGED << validator_env, validator_step >>
    /\ UNCHANGED outside_validator

ValidatorClose(stop) ==
    /\ Returned
    /\ PossibleStop(Validator, stop)
    /\ LET r == close(validator_env, Validator, stop)
       IN  /\ SetValidator(r.v)
           /\ validator_last' = [op |-> "close", ended |-> r.ended]
    /\ UNCHANGED << validator_env, validator_step >>
    /\ UNCHANGED outside_validator

\* The validator process exits by itself.
ValidatorExits ==
    /\ Returned
    /\ validator_alive # {}
    /\ validator_alive' = {}
    /\ validator_last' = [op |-> "exit", ended |-> "none"]
    /\ UNCHANGED << validator_env, validator_cm, validator_proc, validator_spawned,
                    validator_peak, validator_torn, validator_funded, validator_step >>
    /\ UNCHANGED outside_validator

\* How the submission goes for the client: "receipt", "error" (an
\* exception) or "possible_success" (the panic that carries "missing field
\* `data`"). Without a validator the connection fails.
SendOutcomes == {"receipt", "error", "possible_success"}

\* SurfpoolEnv.step(tx): client.send_transaction(tx) is the first call it
\* makes, whatever the state of the environment.
ValidatorStep(send) ==
    /\ Returned
    /\ validator_alive = {} => send = "error"
    /\ LET r == surfpool_step(Response("tx", TRUE, send, DummyReceipt))
       IN  validator_step' = [sent |-> TRUE,
                              delivered |-> validator_alive # {},
                              funded |-> validator_funded,
                              has_receipt |-> r.has_receipt,
                              done |-> r.done,
                              possible_success |-> r.possible_success]
    /\ validator_last' = [op |-> "step", ended |-> send]
    /\ UNCHANGED << validator_env, validator_cm, validator_proc, validator_alive,
                    validator_spawned, validator_peak, validator_torn, validator_funded >>
    /\ UNCHANGED outside_validator

ValidatorNext ==
    \/ \E o \in ResetOutcomes : ValidatorReset(o)
    \/ \E stop \in StopOutcomes : ValidatorClose(stop)
    \/ ValidatorExits
    \/ \E send \in SendOutcomes : ValidatorStep(send)

SpecValidator == ValidatorInit /\ [][ValidatorNext]_vars

\* C20: at most one validator process of the environment is alive, in every
\* state and at every moment of a reset() or close() call, whatever way the
\* stops, launches and airdrops go.
C20_AtMostOneValidatorAlive ==
    /\ Cardinality(validator_alive) <= 1
    /\ validator_peak <= 1

\* What keeps it so: a live process is the one of the entered context
\* manager, which the next reset() or close() exits.
LiveValidatorIsOwned ==
    validator_alive # {} =>
        /\ validator_cm.gen \in {"entered", "entering"}
        /\ validator_alive = {validator_cm.proc}

\* The third validator is alive after a reset() whose airdrop failed: the two
\* before it were stopped or had exited.
C20_Witness ==
    /\ validator_last = [op |-> "reset", ended |-> "airdrop_failed"]
    /\ validator_spawned = 3
    /\ validator_alive = {3}

\* C21: every run of the teardown block on a process that still runs
\* delivers SIGTERM, and SIGKILL as well when the process does not exit within
\* the grace period; the process is dead once the block has run; and no
\* process outlives its context: a live process is the one of a context
\* manager that has not been left.
C21_TeardownAlwaysRuns ==
    /\ \A r \in validator_torn :
          /\ r.proc \notin validator_alive
          /\ r.stop = "terminated" => r.signals = << "SIGTERM" >>
          /\ r.stop = "killed" => r.signals = << "SIGTERM", "SIGKILL" >>
    /\ \A pid \in validator_alive :
          validator_cm.proc = pid /\ validator_cm.gen \in {"entered", "entering"}

\* A launch was interrupted while the process ran, and the process had to
\* be killed.
C21_Witness ==
    /\ validator_last = [op |-> "reset", ended |-> "launch_raised"]
    /\ validator_alive = {}
    /\ \E r \in validator_torn :
          /\ r.proc = validator_spawned
          /\ r.stop = "killed"
          /\ r.signals = << "SIGTERM", "SIGKILL" >>

\* A close() call on an environment with no running validator sends no
\* signal, raises nothing and leaves the environment stopped.
QuietClose ==
    /\ validator_last'.ended = "closed"
    /\ \A r \in validator_torn' : r.signals = << >>
    /\ validator_cm' = NoValidator
    /\ validator_proc' = None
    /\ validator_alive' = {}

\* C22: close() is idempotent: called when no validator was started, when the
\* environment is already closed, or when the process has already exited, it
\* sends no signal, raises no error and leaves the environment stopped.
C22_CloseIdempotent ==
    [][ validator_last'.op = "close" /\ validator_alive = {} => QuietClose ]_vars

\* It is so when there is no context manager or its generator has finished
\* (never started, closed before, launch failed).
CloseWithoutEnteredContextIsQuiet ==
    [][ validator_last'.op = "close" /\ validator_cm.gen # "entered" => QuietClose ]_vars

\* It is so in src/voyager/surfpool_env.py, which catches ProcessLookupError.
CloseIdempotentVoyager ==
    [][ /\ validator_last'.op = "close"
        /\ validator_alive = {}
        /\ validator_env = "voyager.surfpool_env"
        => QuietClose ]_vars

\* close() of src/surfpool_env.py was left by ProcessLookupError: the
\* validator had exited, and the context manager is still stored.
CloseRaised ==
    /\ validator_env = "surfpool_env"
    /\ validator_last = [op |-> "close", ended |-> "stop_raised"]
    /\ validator_cm.gen = "finished"
    /\ validator_alive = {}

\* C23: starting the validator always returns: no reset() is left waiting
\* for the ready line of a process that neither exits nor prints it.
C23_StartAlwaysReturns ==
    /\ validator_last.ended # "never_returns"
    /\ validator_cm.gen # "entering"

\* reset() waits for the ready line of a silent process, which runs on.
StartWaitsForever ==
    /\ validator_last = [op |-> "reset", ended |-> "never_returns"]
    /\ validator_cm.gen = "entering"
    /\ validator_alive = {validator_cm.proc}

\* A reset() that does return after a failed launch leaves no process.
ReturnedLaunchFailureLeftNothing ==
    validator_last = [op |-> "reset", ended |-> "launch_raised"] => validator_alive = {}

\* ---------------------------------------------------------------------------
\* Skill execution: TypeScriptSkillManager.execute_skill and its callers.
\* ---------------------------------------------------------------------------

\* blocks the validator produces while the calls are followed
MaxBlocks == 2

\* The two modules a TypeScriptSkillManager is imported from.
ExecManagers == {"skill_manager", "voyager.skill_manager"}

\* What the runner process may leave on stdout or stderr.
Texts ==
    { "{\"success\": true, \"serialized_tx\": \"AQ==\"}",
      "{\"success\": false, \"reason\": \"boom\"}",
      "{\"trace\": \"boom\"}",
      "log line\n{\"success\": true, \"serialized_tx\": \"AQ==\"}",
      "" }

\* json.loads(text): the object, or JSONDecodeError.
json_loads(text) ==
    CASE text = "{\"success\": true, \"serialized_tx\": \"AQ==\"}" ->
             [ok |-> TRUE, value |-> [success |-> "true", has_reason |-> FALSE]]
      [] text = "{\"success\": false, \"reason\": \"boom\"}" ->
             [ok |-> TRUE, value |-> [success |-> "false", has_reason |-> TRUE]]
      [] text = "{\"trace\": \"boom\"}" ->
             [ok |-> TRUE, value |-> [success |-> "absent", has_reason |-> FALSE]]
      [] OTHER -> [ok |-> FALSE, value |-> NoValue]

\* subprocess.run(command, check=True): FileNotFoundError when bun is not
\* installed, CalledProcessError on a non-zero exit, else the completed
\* process.
Runs ==
    { [exit |-> "not_found", stdout |-> "", stderr |-> ""] }
    \cup { [exit |-> e, stdout |-> out, stderr |-> err] :
              e \in {"zero", "nonzero"}, out \in Texts, err \in Texts }

\* The keyword arguments of a call; latest_blockhash is None when not given.
Keywords(agent_pubkey, latest_blockhash) ==
    [agent_pubkey |-> agent_pubkey, latest_blockhash |-> latest_blockhash]

\* What each caller passes next to the file path, with block the blockhash
\* it has just fetched (if it fetches one).
CallOf(caller, block) ==
    CASE caller = "test" -> Keywords(FALSE, None)
      [] caller = "grow_skill" -> Keywords(TRUE, None)
      [] caller = "run_skill" -> Keywords(TRUE, block)
      [] caller = "explorer" -> Keywords(TRUE, block)

Callers == {"test", "grow_skill", "run_skill", "explorer"}

(***************************************************************************)
(* execute_skill(file_path, ...) of the manager, for one run of the runner *)
(* process.  The manager of src/skill_manager takes no agent_pubkey and no *)
(* latest_blockhash: a call with either is a TypeError before the body.    *)
(* The body returns json.loads(stdout) on a zero exit, json.loads(stderr)  *)
(* on a non-zero one, with a failure object when stderr is not JSON or bun *)
(* is missing.                                                             *)
(***************************************************************************)
execute_skill(manager, keywords, run) ==
    LET accepts == manager = "voyager.skill_manager"
                   \/ (~keywords.agent_pubkey /\ keywords.latest_blockhash = None)
        failure == [success |-> "false", has_reason |-> TRUE]
        out == json_loads(run.stdout)
        err == json_loads(run.stderr)
    IN  IF ~accepts
        THEN [started |-> FALSE, command_blockhash |-> None, raised |-> "TypeError",
              value |-> NoValue]
        ELSE [started |-> TRUE,
              command_blockhash |-> keywords.latest_blockhash,
              raised |-> IF run.exit = "zero" /\ ~out.ok THEN "JSONDecodeError" ELSE "none",
              value |-> CASE run.exit = "not_found" -> failure
                          [] run.exit = "zero" -> out.value
                          [] run.exit = "nonzero" /\ err.ok -> err.value
                          [] OTHER -> failure]

ExecInit ==
    /\ InitLate
    /\ InitEp
    /\ InitEnvs
    /\ InitEmptyStore
    /\ InitCkpt
    /\ InitValidatorOf("surfpool_env")
    /\ InitConc
    /\ \E manager \in ExecManagers : InitExecOf(manager)

\* The validator produces a block.
BlockProduced ==
    /\ exec_block < MaxBlocks
    /\ exec_block' = exec_block + 1
    /\ UNCHANGED << exec_manager, exec_last >>
    /\ UNCHANGED outside_exec

\* One caller asks the manager to execute a skill file.  SimpleExplorer of
\* src/voyager builds the manager of src/voyager/skill_manager.
ExecuteSkill(caller, run) ==
    /\ caller = "explorer" => exec_manager = "voyager.skill_manager"
    /\ LET r == execute_skill(exec_manager, CallOf(caller, exec_block), run)
       IN  exec_last' = [caller |-> caller, run |-> run, block_at_call |-> exec_block,
                         started |-> r.started,
                         command_blockhash |-> r.command_blockhash,
                         raised |-> r.raised, value |-> r.value]
    /\ UNCHANGED << exec_manager, exec_block >>
    /\ UNCHANGED outside_exec

ExecNext ==
    \/ BlockProduced
    \/ \E caller \in Callers : \E run \in Runs : ExecuteSkill(caller, run)

SpecExec == ExecInit /\ [][ExecNext]_vars

\* The last call of execute_skill ran the runner process and it failed.
RunFailed ==
    /\ exec_last.started
    /\ \/ exec_last.run.exit # "zero"
       \/ ~json_loads(exec_last.run.stdout).ok

\* C26: execute_skill(file_path) raises nothing, whatever the runner process
\* does, and every failed run is returned as an object with success false
\* and a reason.
C26_ExecuteSkillNeverRaises ==
    exec_last.caller = "test" =>
        /\ exec_last.raised = "none"
        /\ RunFailed => exec_last.value.success = "false" /\ exec_last.value.has_reason

\* A zero exit whose stdout is not JSON leaves execute_skill by an exception.
ExecuteSkillRaisedOnOutput ==
    /\ exec_last.caller = "test"
    /\ exec_last.run.exit = "zero"
    /\ exec_last.raised = "JSONDecodeError"

\* The failures the code handles are returned as failure objects: a missing
\* bun, and a non-zero exit whose stderr is not JSON or is a failure object.
HandledFailuresAreNormalized ==
    LET err == json_loads(exec_last.run.stderr)
    IN  /\ exec_last.caller = "test"
        /\ \/ exec_last.run.exit = "not_found"
           \/ exec_last.run.exit = "nonzero" /\ (~err.ok \/ err.value.success = "false")
        => /\ exec_last.raised = "none"
           /\ exec_last.value.success = "false"
           /\ exec_last.value.has_reason

\* The last call got a runner process going.
RunnerRan == exec_last.started /\ exec_last.run.exit # "not_found"

\* C27: every skill execution the environment starts, for a registered skill
\* or for the candidate of the growth loop, gets the blockhash the caller
\* fetched for it just before.
C27_EveryExecutionHasFreshBlockhash ==
    exec_last.caller \in {"run_skill", "grow_skill", "explorer"} /\ RunnerRan
    => exec_last.command_blockhash = exec_last.block_at_call

\* The executions of registered skills do get the blockhash fetched for them.
RegisteredSkillRunsWithFreshBlockhash ==
    exec_last.caller \in {"run_skill", "explorer"} /\ RunnerRan
    => /\ exec_last.command_blockhash # None
       /\ exec_last.command_blockhash = exec_last.block_at_call

\* The growth loop's test of a candidate ran with no blockhash.
GrowTestRanWithoutBlockhash ==
    /\ exec_last.caller = "grow_skill"
    /\ RunnerRan
    /\ exec_last.command_blockhash = None

\* A registered skill ran with the blockhash of a block produced after the
\* previous execution.
RegisteredSkillRanAtLaterBlock ==
    /\ exec_last.caller = "run_skill"
    /\ RunnerRan
    /\ exec_last.block_at_call > 0
    /\ exec_last.command_blockhash = exec_last.block_at_call

\* ---------------------------------------------------------------------------
\* step() coroutines issued concurrently on one SolanaVoyagerEnv.  A
\* coroutine runs without interruption from one await to the next.
\* ---------------------------------------------------------------------------

\* step(): self.t += 1, then _run_skill up to its first await
\* (get_latest_blockhash); the later awaits, down to solana_env.step(tx),
\* touch no field of the environment.
ConcStart(k) ==
    /\ conc_pc[k] = "idle"
    /\ conc_t' = conc_t + 1
    /\ conc_pc' = [conc_pc EXCEPT ![k] = "awaiting"]
    /\ conc_result' = [conc_result EXCEPT ![k].step = conc_t + 1]
    /\ UNCHANGED << conc_protocols_seen, conc_instructions_seen, conc_paid >>
    /\ UNCHANGED outside_conc

\* The last await of _run_skill returns: the reward loops run against the
\* discovery state as it is now, and step() computes terminated from self.t
\* as it is now.
ConcFinish(k, response) ==
    /\ conc_pc[k] = "awaiting"
    /\ LET r == run_skill(TRUE, response, conc_protocols_seen, conc_instructions_seen)
       IN  /\ conc_protocols_seen' = r.bonus.protocols_seen
           /\ conc_instructions_seen' = r.bonus.program_instructions_seen
           /\ conc_result' = [conc_result EXCEPT ![k] =
                                 [outcome |-> r.outcome, reward |-> r.bonus.reward,
                                  terminated |-> Terminated(conc_t, r.done),
                                  step |-> conc_result[k].step,
                                  receipt |-> r.receipt]]
           /\ conc_paid' = [protocols |-> conc_paid.protocols + r.bonus.protocol_reward,
                            instructions |-> conc_paid.instructions + r.bonus.instruction_reward]
    /\ conc_pc' = [conc_pc EXCEPT ![k] = "returned"]
    /\ UNCHANGED conc_t
    /\ UNCHANGED outside_conc

ConcNext ==
    \/ \E k \in Tasks : ConcStart(k)
    \/ \E k \in Tasks : \E response \in Responses : ConcFinish(k, response)

SpecConc == Init /\ [][ConcNext]_vars

\* The attempts that have started and whose reward is not committed yet.
InFlight == { k \in Tasks : conc_pc[k] = "awaiting" }

\* C28: an attempt starts only when the reward of every earlier attempt is
\* committed to the discovery state.
C28_AttemptsStrictlyOrdered == Cardinality(InFlight) <= 1

\* Two attempts are in flight at once.
TwoAttemptsInFlight == Cardinality(InFlight) = 2

\* Every bonus paid stands for one item of the discovery state, and every
\* item of the discovery state was paid once: nothing is rewarded twice.
NoItemRewardedTwice ==
    /\ conc_paid.protocols = ProtocolBonus * Cardinality(conc_protocols_seen)
    /\ conc_paid.instructions =
          InstructionBonus * SumCardinality(conc_instructions_seen,
                                            DOMAIN conc_instructions_seen)

\* Whatever a returned attempt's receipt refers to is in the discovery state:
\* no update is lost.
NoDiscoveryUpdateLost ==
    \A k \in Tasks :
        conc_pc[k] = "returned" /\ conc_result[k].outcome = "tx_sent" =>
            LET labels == LabelsOf[conc_result[k].receipt]
                discs == ExtractedOf[conc_result[k].receipt].discs
            IN  /\ \A i \in 1..Len(labels) : labels[i] \in conc_protocols_seen
                /\ \A p \in DOMAIN discs :
                      discs[p] \subseteq SeenFor(conc_instructions_seen, p)

\* Both attempts were in flight together, the one started second returned
\* first, and both referred to the same protocol: one bonus was paid.
InterleavedAttemptsReturned ==
    /\ \A k \in Tasks : conc_pc[k] = "returned" /\ conc_result[k].outcome = "tx_sent"
    /\ conc_result[1].step = 1
    /\ conc_result[1].reward = 0
    /\ conc_result[2].reward > 0
    /\ conc_result[1].receipt = conc_result[2].receipt

\* The attempt started first reports terminated although it was step 1 of an
\* episode of max_steps steps.
FirstAttemptReportsTerminated ==
    \E k \in Tasks :
        /\ conc_pc[k] = "returned"
        /\ conc_result[k].step < max_steps
        /\ conc_result[k].terminated

\* ---------------------------------------------------------------------------
\* The discovery state across episodes.
\* ---------------------------------------------------------------------------

\* reset() that leaves the discovery state as it finds it
VoyagerResetMutKeepsSeen(steps, seen, instructions_seen) ==
    [t |-> 0, protocols_seen |-> seen, program_instructions_seen |-> instructions_seen]

\* SolanaVoyagerEnv.reset: self.t = 0 and both sets cleared, before the
\* low-level reset is awaited.
voyager_reset(steps, seen, instructions_seen) ==
    [t |-> 0, protocols_seen |-> {}, program_instructions_seen |-> << >>]

\* The union of two program_instructions_seen maps.
MergeSeen(a, b) ==
    [p \in DOMAIN a \cup DOMAIN b |-> SeenFor(a, p) \cup SeenFor(b, p)]

EpReset ==
    /\ LET r == voyager_reset(ep_t, ep_protocols_seen, ep_instructions_seen)
       IN  /\ ep_t' = r.t
           /\ ep_protocols_seen' = r.protocols_seen
           /\ ep_instructions_seen' = r.program_instructions_seen
    /\ ep_earlier' = [protocols |-> ep_earlier.protocols \cup ep_protocols_seen,
                      instructions |-> MergeSeen(ep_earlier.instructions,
                                                 ep_instructions_seen)]
    /\ ep_last' = [EpNoCall EXCEPT !.op = "reset"]
    /\ UNCHANGED outside_ep

\* The submissions followed across episodes: the failures, and the receipts
\* of successful transactions without inner instructions that call the first
\* account, one or two protocols among the accounts.
EpResponses ==
    FailedResponses
    \cup { Response("tx", TRUE, "receipt", r) :
             r \in { x \in Receipts :
                       /\ ~x.err /\ ~x.innerNull /\ x.innerInstructions = << >>
                       /\ x.accountKeys \in { << "JUP6" >>, << "JUP6", "LBUZ" >> }
                       /\ x.instructions \in { << Ix(0, D_2) >>,
                                                << Ix(0, D_2), Ix(0, D_3) >> } } }

\* step(action) that runs a registered skill.
EpRunSkill(response) ==
    /\ ep_t < MaxSteps
    /\ LET r == run_skill(TRUE, response, ep_protocols_seen, ep_instructions_seen)
       IN  /\ ep_protocols_seen' = r.bonus.protocols_seen
           /\ ep_instructions_seen' = r.bonus.program_instructions_seen
           /\ ep_last' = [op |-> "run_skill", outcome |-> r.outcome, receipt |-> r.receipt,
                          reward |-> r.bonus.reward, paid |-> r.bonus.paid,
                          new_instructions |-> r.bonus.new_instructions,
                          protocols_before |-> ep_protocols_seen,
                          instructions_before |-> ep_instructions_seen]
    /\ ep_t' = ep_t + 1
    /\ UNCHANGED ep_earlier
    /\ UNCHANGED outside_ep

EpNext ==
    \/ EpReset
    \/ \E response \in EpResponses : EpRunSkill(response)

SpecEpisodes == Init /\ [][EpNext]_vars

\* C29: reset() leaves both discovery sets empty and the step counter at 0;
\* the first attempt of an episode finds them empty, and an attempt is paid
\* for every protocol and instruction its receipt refers to that the current
\* episode has not seen, whatever the earlier episodes discovered.
C29_DiscoveryIsPerEpisode ==
    /\ ep_last.op = "reset" =>
          ep_t = 0 /\ ep_protocols_seen = {} /\ ep_instructions_seen = << >>
    /\ ep_last.op = "run_skill" /\ ep_t = 1 =>
          ep_last.protocols_before = {} /\ ep_last.instructions_before = << >>
    /\ ep_last.op = "run_skill" /\ ep_last.outcome = "tx_sent" =>
          LET labels == LabelsOf[ep_last.receipt]
              discs == ExtractedOf[ep_last.receipt].discs
          IN  /\ \A i \in 1..Len(labels) :
                    labels[i] \notin ep_last.protocols_before
                    => labels[i] \in Range(ep_last.paid)
              /\ \A p \in DOMAIN discs :
                    ep_last.new_instructions[p] =
                        discs[p] \ SeenFor(ep_last.instructions_before, p)
              /\ ep_last.reward =
                    ProtocolBonus * Len(ep_last.paid)
                    + InstructionBonus * SumCardinality(ep_last.new_instructions,
                                                        DOMAIN ep_last.new_instructions)

\* The first attempt of an episode is paid for a protocol and for an
\* instruction that an earlier episode had discovered.
C29_Witness ==
    /\ ep_last.op = "run_skill"
    /\ ep_t = 1
    /\ \E i \in 1..Len(ep_last.paid) : ep_last.paid[i] \in ep_earlier.protocols
    /\ \E p \in DOMAIN ep_last.new_instructions :
          /\ p \in DOMAIN ep_earlier.instructions
          /\ ep_last.new_instructions[p] \cap ep_earlier.instructions[p] # {}

\* C30: a NEW_SKILL step whose candidate passes its test returns reward 1.0
\* (2 half units) with status "success" and the id of the registered skill.
C30_NewSkillSuccessReward ==
    store_last.op = "grow" /\ store_last.status = "success" =>
        /\ store_last.reward = 2
        /\ store_last.skill_id \in DOMAIN skills

\* What the code does return on success: reward 0.0 with the id of the skill
\* it has just registered.
NewSkillSuccessReturnsZero ==
    store_last.op = "grow" /\ store_last.status = "success" =>
        /\ store_last.reward = 0
        /\ store_last.skill_id = store_next_skill_id - 1
        /\ store_last.skill_id \in DOMAIN skills

\* A NEW_SKILL step succeeded on its second proposal.
NewSkillSucceeded ==
    /\ store_last.op = "grow"
    /\ store_last.status = "success"
    /\ store_last.proposals = 2
    /\ store_last.reward = 0

\* C24: no step() submits a transaction while the agent keypair of the
\* session has not got its airdrop.
C24_NoSubmissionBeforeFunding ==
    validator_last.op = "step" => validator_step.funded \/ ~validator_step.sent

\* step() before any reset(): the submission is attempted and fails on the
\* connection.
StepBeforeReset ==
    /\ validator_last.op = "step"
    /\ validator_spawned = 0
    /\ validator_step.sent
    /\ ~validator_step.delivered

\* step() after a reset() whose airdrop failed: the validator got the
\* transaction and a receipt came back.
UnfundedStepDelivered ==
    /\ validator_last.op = "step"
    /\ ~validator_step.funded
    /\ validator_step.delivered
    /\ validator_step.has_receipt

\* C25: an attempt whose submission hit the "missing field `data`" parsing
\* defect ends as tx_possibly_sent: it is not marked tx_sent, it holds no
\* receipt of the validator, it earns nothing and leaves the discovery state
\* as it was, and it differs from a hard failure, which ends as tx_error
\* with done set.  No other attempt ends as tx_possibly_sent.
C25_PossibleSuccessIsDistinct ==
    \A i \in 1..Len(attempts) :
        LET a == attempts[i]
        IN  /\ a.send = "possible_success" =>
                  /\ a.outcome = "tx_possibly_sent"
                  /\ ~a.has_receipt
                  /\ a.receipt = DummyReceipt
                  /\ ~a.done
                  /\ a.reward = 0
                  /\ a.paid = << >>
            /\ a.send = "error" => a.outcome = "tx_error" /\ a.done /\ ~a.has_receipt
            /\ a.send = "receipt" => a.outcome = "tx_sent" /\ a.has_receipt
            /\ a.outcome = "tx_possibly_sent" => a.send = "possible_success"

\* The attempt with the parsing defect changes neither discovery set.
PossibleSuccessLeavesDiscoveryState ==
    [][\A skill_id \in 0..MaxSkills :
          StepRunSkill(skill_id, Response("tx", TRUE, "possible_success", DummyReceipt))
          => /\ protocols_seen' = protocols_seen
             /\ program_instructions_seen' = program_instructions_seen]_vars

\* An attempt with the parsing defect follows one that discovered something.
C25_Witness ==
    /\ Len(attempts) = 2
    /\ attempts[1].outcome = "tx_sent"
    /\ attempts[1].reward > 0
    /\ attempts[2].send = "possible_success"
    /\ attempts[2].outcome = "tx_possibly_sent"

\* ---------------------------------------------------------------------------
\* Episode accounting: TrajectoryTracker and VoyagerEnvWithTracking.
\* ---------------------------------------------------------------------------

\* The episodes the tracker is followed through.
EpisodeIds == {1, 2}
\* entries recorded in one episode
MaxRecords == 2

\* Episode(episode_id, start_time): empty lists, total_reward 0.0.
NewEpisode(episode_id) ==
    [episode_id |-> episode_id, ended |-> FALSE, total_reward |-> 0,
     llm_calls |-> << >>, skill_attempts |-> << >>,
     protocols_discovered |-> << >>, skills_created |-> << >>]

\* The attempts recorded: reward in half units, success = reward > 0 as
\* VoyagerEnvWithTracking._run_skill passes it.
SkillAttempts ==
    { [skill_id |-> 0, success |-> a.reward > 0, reward |-> a.reward,
       protocols_discovered |-> a.protocols] :
        a \in { [reward |-> 0, protocols |-> << >>],
                [reward |-> 1, protocols |-> << "Jupiter" >>],
                [reward |-> 2, protocols |-> << "Jupiter" >>] } }

RECURSIVE AppendNew(_, _, _)
\* for protocol in protocols: append it unless it is in the list already
AppendNew(list, protocols, i) ==
    IF i > Len(protocols) THEN list
    ELSE AppendNew(IF protocols[i] \in Range(list) THEN list ELSE Append(list, protocols[i]),
                   protocols, i + 1)

\* record_skill_attempt that keeps only the newest attempt
RecordSkillAttemptMutOverwrite(episode, attempt) ==
    [episode EXCEPT !.skill_attempts = << attempt >>,
                    !.total_reward = @ + attempt.reward]

\* record_skill_attempt on the current episode: append the attempt, add its
\* reward, note the protocols not noted yet.
record_skill_attempt(episode, attempt) ==
    [episode EXCEPT !.skill_attempts = Append(@, attempt),
                    !.total_reward = @ + attempt.reward,
                    !.protocols_discovered = AppendNew(@, attempt.protocols_discovered, 1)]

\* record_llm_call on the current episode.
record_llm_call(episode, success, skill_generated, error) ==
    [episode EXCEPT !.llm_calls =
        Append(@, [success |-> success, skill_generated |-> skill_generated,
                   error |-> error])]

\* record_skill_created on the current episode.
record_skill_created(episode, skill_name) ==
    [episode EXCEPT !.skills_created = Append(@, skill_name)]

\* The entries of an episode.
Recorded(episode) ==
    Len(episode.llm_calls) + Len(episode.skill_attempts) + Len(episode.skills_created)

\* A recording call on the tracker: nothing without a current episode.
OnCurrent(update(_)) ==
    IF tr_current = 0 THEN tr_episodes
    ELSE [tr_episodes EXCEPT ![tr_current] = update(@)]

HasRoom == IF tr_current = 0 THEN TRUE ELSE Recorded(tr_episodes[tr_current]) < MaxRecords

\* The last call: for NEW_SKILL, how the growth ended and how many entries
\* the episode held before it.
TrCall(op, status) ==
    [op |-> op, status |-> status,
     recorded |-> IF tr_current = 0 \/ op # "grow_skill" THEN 0
                  ELSE Recorded(tr_episodes[tr_current])]

\* start_episode: a new Episode becomes current and joins episodes.
TrStartEpisode ==
    /\ Len(tr_episodes) + 1 \in EpisodeIds
    /\ tr_episodes' = Append(tr_episodes, NewEpisode(Len(tr_episodes) + 1))
    /\ tr_current' = Len(tr_episodes) + 1
    /\ tr_last' = TrCall("tracker", "none")
    /\ UNCHANGED outside_tr

\* end_episode: the current episode gets its end time; no current episode.
TrEndEpisode ==
    /\ tr_episodes' = IF tr_current = 0 THEN tr_episodes
                      ELSE [tr_episodes EXCEPT ![tr_current].ended = TRUE]
    /\ tr_current' = 0
    /\ tr_last' = TrCall("tracker", "none")
    /\ UNCHANGED outside_tr

TrRecordSkillAttempt(attempt) ==
    /\ HasRoom
    /\ LET update(e) == record_skill_attempt(e, attempt)
       IN  tr_episodes' = OnCurrent(update)
    /\ tr_last' = TrCall("tracker", "none")
    /\ UNCHANGED tr_current
    /\ UNCHANGED outside_tr

\* The info keys SolanaVoyagerEnv._grow_skill returns for each ending.
GrowInfoKeys(status) ==
    CASE status = "success" -> {"new_skill_id", "status"}
      [] status = "failed" -> {"status", "last_error"}
      [] status = "no_observation" -> {"error"}

\* VoyagerEnvWithTracking._grow_skill after the parent returned: an LLM call
\* is recorded when info has "error", or when it has "skill_grown".
tracked_grow_skill(episode, status) ==
    LET info == GrowInfoKeys(status)
    IN  IF "error" \in info
        THEN record_llm_call(episode, FALSE, FALSE, "error")
        ELSE IF "skill_grown" \in info
        THEN record_skill_created(record_llm_call(episode, TRUE, TRUE, "none"),
                                  "skill_grown")
        ELSE episode

\* step(NEW_SKILL) on VoyagerEnvWithTracking.
TrGrowSkill(status) ==
    /\ HasRoom
    /\ LET update(e) == tracked_grow_skill(e, status)
       IN  tr_episodes' = OnCurrent(update)
    /\ tr_last' = TrCall("grow_skill", status)
    /\ UNCHANGED tr_current
    /\ UNCHANGED outside_tr

\* record_llm_call and record_skill_created called on the tracker itself.
TrRecordLLMCall(success, skill_generated) ==
    /\ HasRoom
    /\ LET update(e) == record_llm_call(e, success, skill_generated,
                                        IF success THEN "none" ELSE "error")
       IN  tr_episodes' = OnCurrent(update)
    /\ tr_last' = TrCall("tracker", "none")
    /\ UNCHANGED tr_current
    /\ UNCHANGED outside_tr

TrRecordSkillCreated ==
    /\ HasRoom
    /\ LET update(e) == record_skill_created(e, "skill")
       IN  tr_episodes' = OnCurrent(update)
    /\ tr_last' = TrCall("tracker", "none")
    /\ UNCHANGED tr_current
    /\ UNCHANGED outside_tr

TrackerNext ==
    \/ TrStartEpisode
    \/ TrEndEpisode
    \/ \E attempt \in SkillAttempts : TrRecordSkillAttempt(attempt)
    \/ \E status \in {"success", "failed", "no_observation"} : TrGrowSkill(status)
    \/ TrRecordLLMCall(TRUE, TRUE)
    \/ TrRecordSkillCreated

SpecTracker == Init /\ [][TrackerNext]_vars

RECURSIVE SumRewards(_, _)
SumRewards(recorded, i) ==
    IF i > Len(recorded) THEN 0 ELSE recorded[i].reward + SumRewards(recorded, i + 1)

\* b starts with a.
IsPrefix(a, b) == Len(a) <= Len(b) /\ SubSeq(b, 1, Len(a)) = a

\* C31: every call keeps the attempts already recorded, of every episode, as
\* they are and in place, adding at most one at the end of the current
\* episode, and leaves each episode's total_reward equal to the sum of the
\* rewards of its attempts.
C31_TrajectoryAppendOnly ==
    [][ /\ IsPrefix(tr_episodes, tr_episodes')
           \/ /\ Len(tr_episodes') = Len(tr_episodes)
              /\ \A e \in 1..Len(tr_episodes) :
                    /\ IsPrefix(tr_episodes[e].skill_attempts,
                                tr_episodes'[e].skill_attempts)
                    /\ Len(tr_episodes'[e].skill_attempts)
                          <= Len(tr_episodes[e].skill_attempts) + 1
                    /\ e # tr_current =>
                          tr_episodes'[e].skill_attempts = tr_episodes[e].skill_attempts
        /\ \A e \in 1..Len(tr_episodes') :
              tr_episodes'[e].total_reward = SumRewards(tr_episodes'[e].skill_attempts, 1)
      ]_vars

\* A second episode holds two rewarded attempts while the first, ended,
\* keeps its own.
C31_Witness ==
    /\ Len(tr_episodes) = 2
    /\ tr_current = 2
    /\ Len(tr_episodes[1].skill_attempts) = 1
    /\ tr_episodes[1].total_reward = 2
    /\ Len(tr_episodes[2].skill_attempts) = 2
    /\ tr_episodes[2].total_reward = 3
    /\ tr_episodes[2].protocols_discovered = << "Jupiter" >>

\* The last llm_calls entry of the current episode.
LastLLMCall ==
    tr_episodes[tr_current].llm_calls[Len(tr_episodes[tr_current].llm_calls)]

\* C33: with an episode active, a NEW_SKILL step adds an LLM call to the
\* episode: skill_generated and an entry in skills_created when the growth
\* succeeded, success false with an error when it did not.
C33_EveryGrowthRecorded ==
    tr_last.op = "grow_skill" /\ tr_current # 0 =>
        /\ Recorded(tr_episodes[tr_current]) > tr_last.recorded
        /\ Len(tr_episodes[tr_current].llm_calls) > 0
        /\ IF tr_last.status = "success"
           THEN /\ LastLLMCall.skill_generated
                /\ Recorded(tr_episodes[tr_current]) = tr_last.recorded + 2
           ELSE /\ ~LastLLMCall.success
                /\ LastLLMCall.error # "none"

\* A growth that succeeded, and one that used up its tries, left the episode
\* as it was.
GrowthNotRecorded ==
    /\ tr_last.op = "grow_skill"
    /\ tr_last.status \in {"success", "failed"}
    /\ tr_current # 0
    /\ Recorded(tr_episodes[tr_current]) = tr_last.recorded

\* Only the growth refused for want of an observation is recorded, as a
\* failed call.
OnlyMissingObservationRecorded ==
    tr_last.op = "grow_skill" /\ tr_current # 0 =>
        IF tr_last.status = "no_observation"
        THEN /\ Recorded(tr_episodes[tr_current]) = tr_last.recorded + 1
             /\ ~LastLLMCall.success /\ ~LastLLMCall.skill_generated
        ELSE Recorded(tr_episodes[tr_current]) = tr_last.recorded

\* C32: in one _grow_skill call the first proposal is asked for with
\* error = None, and each later one with the failure detail of the pass just
\* before it.
C32_ErrorFeedsNextProposal ==
    store_last.op = "grow" =>
        \A i \in 1..Len(store_last.errors) :
            IF i = 1 THEN store_last.errors[i] = NoError
            ELSE /\ store_last.errors[i][1] \in {"runtime", "deserialize"}
                 /\ store_last.errors[i][2] = i - 1

\* Three proposals, the third asked for with the detail of the second pass,
\* which failed in another way than the first.
C32_Witness ==
    /\ store_last.op = "grow"
    /\ Len(store_last.errors) = 3
    /\ store_last.errors[2] = << "runtime", 1 >>
    /\ store_last.errors[3] = << "deserialize", 2 >>

\* ---------------------------------------------------------------------
\* The session keypair and the planner's copy of its public key.
\* Keypair() draws a fresh random key: the n-th key drawn is n.
\* ---------------------------------------------------------------------

MaxKeypairs == 4

\* SolanaVoyagerEnv.reset then SurfpoolEnv.reset: a new keypair for the
\* episode, an airdrop to it that may fail.
KeyReset(airdrop_ok) ==
    /\ key_made < MaxKeypairs
    /\ key_made' = key_made + 1
    /\ key_agent_keypair' = key_made + 1
    /\ key_funded' = IF airdrop_ok THEN key_funded \cup {key_made + 1} ELSE key_funded
    /\ key_t' = 0
    /\ key_last' = [KeyNoCall EXCEPT !.op = "reset"]
    /\ UNCHANGED key_planner_pubkey
    /\ UNCHANGED outside_key

\* step that grows a skill in `passes` passes: each pass builds a prompt
\* around the planner's key and runs the proposal with the session key.
KeyGrowSkill(passes) ==
    /\ key_t < MaxSteps
    /\ key_t' = key_t + 1
    /\ key_last' = [op |-> "grow_skill",
                    prompts |-> [i \in 1..passes |-> key_planner_pubkey],
                    executes |-> [i \in 1..passes |-> key_agent_keypair],
                    signer |-> None]
    /\ UNCHANGED << key_made, key_agent_keypair, key_planner_pubkey, key_funded >>
    /\ UNCHANGED outside_key

\* step that runs a skill: the skill gets the session key; a transaction it
\* hands back is signed with the session keypair.
KeyRunSkill(outcome) ==
    /\ key_t < MaxSteps
    /\ key_t' = key_t + 1
    /\ key_last' = [op |-> "run_skill", prompts |-> << >>,
                    executes |-> IF outcome = "not_found" THEN << >>
                                 ELSE << key_agent_keypair >>,
                    signer |-> IF outcome = "signed" THEN key_agent_keypair ELSE None]
    /\ UNCHANGED << key_made, key_agent_keypair, key_planner_pubkey, key_funded >>
    /\ UNCHANGED outside_key

KeyNext ==
    \/ \E airdrop_ok \in BOOLEAN : KeyReset(airdrop_ok)
    \/ \E passes \in 1..CONFIG_MAX_LLM_SKILL_TRIES : KeyGrowSkill(passes)
    \/ \E outcome \in {"not_found", "skill_raises", "no_transaction", "signed"} :
          KeyRunSkill(outcome)

SpecKeys == Init /\ [][KeyNext]_vars

\* C34: from the first reset() on, the public key the planner holds is the
\* public key of the session keypair.
C34_PlannerHoldsSessionKey ==
    key_made > 1 => key_planner_pubkey = key_agent_keypair

\* A growth step after a reset: every prompt names the key drawn at
\* construction while every proposal is run with the episode's key.
PromptNamesStaleKey ==
    /\ key_last.op = "grow_skill"
    /\ \A i \in DOMAIN key_last.prompts :
          key_last.prompts[i] = 1 /\ key_last.executes[i] = key_agent_keypair
    /\ key_agent_keypair > 1

\* The planner's key is never assigned after construction.
PlannerKeyNeverChanges ==
    key_planner_pubkey = 1

\* C36: every step() adds exactly 1 to the step counter, whatever the action
\* and however it ends, and returns terminated = True exactly when the
\* counter has reached max_steps; reset() puts the counter back to 0.
C36_StepCounterAndTermination ==
    [][ IF result'.action = "none"
        THEN t' = 0
        ELSE /\ t' = t + 1
             /\ result'.action # "raised" =>
                    result'.terminated = (t' >= max_steps) ]_vars

\* The max_steps-th step of an episode is a step that runs no skill, and it
\* reports termination.
C36_Witness ==
    /\ t = max_steps
    /\ result.action = "fetch_tx_examples"
    /\ result.terminated

\* The max_steps-th step reports termination after an earlier step of the
\* episode left step() with an exception.
TerminatesAfterRaisedStep ==
    [][ result.action = "raised" /\ t' = max_steps /\ result'.action # "raised"
        => result'.terminated ]_vars

\* ---------------------------------------------------------------------
\* SimpleExplorer.rollout and SimpleExplorer.step.
\* ---------------------------------------------------------------------

MaxModelCalls == 4

\* What one model answer does to step(): the finish reason; for an answer
\* with tool calls, the reward env.step paid for them, or an unexpected
\* function name.
ModelAnswers ==
    { [finish_reason |-> "tool_calls", reward |-> r, unexpected |-> FALSE] : r \in 0..1 }
    \cup { [finish_reason |-> "tool_calls", reward |-> 0, unexpected |-> TRUE],
           [finish_reason |-> "stop", reward |-> 0, unexpected |-> FALSE],
           [finish_reason |-> "length", reward |-> 0, unexpected |-> FALSE] }

\* step() entered: finish_reason = "tool_calls", reward = 0.0.
EnterStep ==
    /\ ro_pc' = "in_step"
    /\ ro_step_reward' = 0
    /\ ro_finish_reason' = "tool_calls"

\* rollout() up to its loop: reset() zeroes the session reward.
RoStart ==
    /\ ro_pc = "idle"
    /\ ro_reward' = 0
    /\ EnterStep
    /\ UNCHANGED << ro_done, ro_calls, ro_step_rewards >>
    /\ UNCHANGED outside_ro

\* One pass of the while loop of step(): done = False, then the tool calls
\* of the answer.  The loop is left when the answer has no tool calls.
RoModelAnswer(answer) ==
    /\ ro_pc = "in_step"
    /\ ro_calls < MaxModelCalls
    /\ ro_calls' = ro_calls + 1
    /\ ro_done' = FALSE
    /\ ro_finish_reason' = answer.finish_reason
    /\ ro_step_reward' = ro_step_reward + answer.reward
    /\ ro_pc' = IF answer.unexpected THEN "raised"
                ELSE IF answer.finish_reason = "tool_calls" THEN "in_step"
                ELSE "step_returned"
    /\ UNCHANGED << ro_reward, ro_step_rewards >>
    /\ UNCHANGED outside_ro

\* rollout() after step() returned (reward, done): the session reward grows,
\* and the loop breaks only on done.
RoAfterStep ==
    /\ ro_pc = "step_returned"
    /\ ro_reward' = ro_reward + ro_step_reward
    /\ ro_step_rewards' = Append(ro_step_rewards, ro_step_reward)
    /\ IF ro_done
       THEN /\ ro_pc' = "returned"
            /\ UNCHANGED << ro_step_reward, ro_finish_reason >>
       ELSE EnterStep
    /\ UNCHANGED << ro_done, ro_calls >>
    /\ UNCHANGED outside_ro

RolloutNext ==
    \/ RoStart
    \/ \E answer \in ModelAnswers : RoModelAnswer(answer)
    \/ RoAfterStep

SpecRollout == Init /\ [][RolloutNext]_vars

RECURSIVE SumSeq(_)
SumSeq(s) == IF s = << >> THEN 0 ELSE s[1] + SumSeq(Tail(s))

\* C37: once a step has ended because the model answered without tool
\* calls, the rollout loop stops and rollout() returns the session reward,
\* the sum of the step rewards.
C37_RolloutStopsAfterPlainAnswer ==
    [][ ro_pc = "step_returned" /\ ro_finish_reason # "tool_calls"
        => /\ ro_pc' = "returned"
           /\ ro_reward' = SumSeq(ro_step_rewards') ]_vars

\* rollout() never reaches its return statement.
RolloutNeverReturns ==
    ro_pc # "returned" /\ ~ro_done

\* A step that ended on a plain answer was followed by another step().
StepFollowsPlainAnswer ==
    /\ ro_pc = "in_step"
    /\ Len(ro_step_rewards) >= 1
    /\ ro_calls >= 1

\* The session reward is at all times the sum of the rewards of the steps
\* that returned.
SessionRewardIsSum ==
    ro_reward = SumSeq(ro_step_rewards)

\* ---------------------------------------------------------------------
\* ProgressTracker: progress.csv and resuming from it.
\* ---------------------------------------------------------------------

MaxIterations == 3

\* The columns _init_progress_file writes as the header that this model
\* follows; DictReader keys every row by them.
ProgressColumns == {"iteration", "total_reward", "completed_tasks_count"}

\* csv.writer writes str(value): "3" for an int, "3.0" for a float.
csv_cell(v) == [digits |-> v.value, point |-> v.kind = "float"]

\* int(text) and float(text) of a cell.
py_int(cell) == cell.digits
py_float(cell) == PyFloat(cell.digits)

\* the completed_tasks arguments followed: None, and lists of task names
CompletedArgs == { << >>, << "swap" >>, << "swap", "stake" >> }

\* record_iteration: the fields move, then one row is appended.
record_iteration(tracker, reward, completed_tasks) ==
    LET total == PyFloat(tracker.total_reward.value + reward)
        tasks == IF completed_tasks # << >> THEN completed_tasks
                 ELSE tracker.completed_tasks
        next == [current_iteration |-> tracker.current_iteration + 1,
                 total_reward |-> total, completed_tasks |-> tasks]
    IN  [tracker |-> next,
         row |-> [iteration |-> csv_cell(PyInt(next.current_iteration)),
                  total_reward |-> csv_cell(total),
                  completed_tasks_count |-> csv_cell(PyInt(Len(tasks)))]]

\* last_row.get(column, default) of a DictReader row
RowGet(row, column, default) ==
    IF column \in ProgressColumns THEN row[column] ELSE default

\* json.loads of the text of the completed_tasks column; "[]" is its default
EmptyListText == [json |-> << >>]
json_loads_list(text) == text.json

\* ProgressTracker(ckpt_dir, resume = True) on an existing progress.csv:
\* _load_existing_progress reads the last row.
load_existing_progress(rows) ==
    IF rows = << >> THEN NewProgressTracker
    ELSE LET last_row == rows[Len(rows)]
         IN  [current_iteration |-> py_int(RowGet(last_row, "iteration", None)),
              total_reward |-> py_float(RowGet(last_row, "total_reward", None)),
              completed_tasks |->
                  json_loads_list(RowGet(last_row, "completed_tasks", EmptyListText))]

PtRecordIteration(reward, completed_tasks) ==
    /\ pt_tracker.current_iteration < MaxIterations
    /\ LET r == record_iteration(pt_tracker, reward, completed_tasks)
       IN  /\ pt_tracker' = r.tracker
           /\ pt_file' = Append(pt_file, r.row)
    /\ pt_last' = [op |-> "record_iteration", before |-> pt_tracker]
    /\ UNCHANGED outside_pt

\* The process starts again on the same directory with resume = True.
PtResume ==
    /\ pt_tracker' = load_existing_progress(pt_file)
    /\ pt_last' = [op |-> "resume", before |-> pt_tracker]
    /\ UNCHANGED pt_file
    /\ UNCHANGED outside_pt

ProgressNext ==
    \/ \E reward \in 0..1 : \E completed_tasks \in CompletedArgs :
          PtRecordIteration(reward, completed_tasks)
    \/ PtResume

SpecProgress == Init /\ [][ProgressNext]_vars

\* C38: a tracker resumed on the directory has the current_iteration, the
\* total_reward and the completed_tasks of the tracker that wrote the file,
\* and the next row it records continues the numbering.
C38_ResumeIsRoundTrip ==
    /\ pt_last.op = "resume" =>
          /\ pt_tracker.current_iteration = pt_last.before.current_iteration
          /\ pt_tracker.total_reward.value = pt_last.before.total_reward.value
          /\ pt_tracker.completed_tasks = pt_last.before.completed_tasks
    /\ \A i \in 1..Len(pt_file) : py_int(pt_file[i].iteration) = i

\* A tracker with two completed tasks was resumed with none.
ResumeForgetsCompletedTasks ==
    /\ pt_last.op = "resume"
    /\ Len(pt_last.before.completed_tasks) = 2
    /\ pt_tracker.completed_tasks = << >>
    /\ pt_tracker.current_iteration = pt_last.before.current_iteration

\* The iteration number and the total reward do come back, and the rows
\* stay numbered 1, 2, ... across resumes.
ResumeKeepsIterationAndReward ==
    /\ pt_last.op = "resume" =>
          /\ pt_tracker.current_iteration = pt_last.before.current_iteration
          /\ pt_tracker.total_reward.value = pt_last.before.total_reward.value
    /\ \A i \in 1..Len(pt_file) : py_int(pt_file[i].iteration) = i

\* ---------------------------------------------------------------------
\* VoyagerClone.learn: the critic's verdict, the rollout, the skill
\* library and the curriculum's task lists.
\* ---------------------------------------------------------------------

MaxFailedTasks == 2
CurriculumTasks == {"swap", "stake"}
action_agent_task_max_retries == 3
critic_max_retries == 5

\* bool(value): a bool is itself, a string is true unless it is empty.
truthy(v) == IF v.type = "bool" THEN v.bool ELSE v.text # ""

\* The values of response["success"] the assert of ai_check_task_success
\* lets through.
AcceptedVerdicts ==
    { PyBool(TRUE), PyBool(FALSE), PyStr("True"), PyStr("False"),
      PyStr("true"), PyStr("false") }

\* The accepted verdicts that say the task succeeded.
TrueVerdicts == { PyBool(TRUE), PyStr("True"), PyStr("true") }

RECURSIVE ai_check_task_success(_, _, _)
\* ai_check_task_success when the first `bad` replies of the critic do not
\* parse and the next one carries `verdict`: response["success"] is
\* returned as it was parsed; False when the retries ran out.
ai_check_task_success(bad, verdict, max_retries) ==
    IF max_retries = 0 THEN [success |-> PyBool(FALSE), exhausted |-> TRUE]
    ELSE IF bad > 0 THEN ai_check_task_success(bad - 1, verdict, max_retries - 1)
    ELSE [success |-> verdict, exhausted |-> FALSE]

\* What one step() of a rollout meets: the action agent's reply parses to
\* code, with or without a program name, or to no code; for code, the
\* critic's replies.
StepInputs ==
    { [parsed |-> "none", bad |-> 0, verdict |-> PyBool(FALSE)] }
    \cup { [parsed |-> p, bad |-> b, verdict |-> v] :
             p \in {"program", "no_program_name"},
             b \in {0, critic_max_retries}, v \in AcceptedVerdicts }

\* VoyagerClone.step, the num_iter-th of its rollout.
voyager_clone_step(input, num_iter) ==
    LET checked == IF input.parsed = "none"
                   THEN [success |-> PyBool(FALSE), exhausted |-> FALSE]
                   ELSE ai_check_task_success(input.bad, input.verdict,
                                              critic_max_retries)
        success == checked.success
    IN  [raised |-> truthy(success) /\ input.parsed # "program",
         done |-> num_iter >= action_agent_task_max_retries \/ truthy(success),
         success |-> success,
         exhausted |-> checked.exhausted,
         stopped_as_success |-> truthy(success) /\ input.parsed = "program"]

RECURSIVE voyager_clone_rollout(_, _)
\* VoyagerClone.rollout from its num_iter-th step on: step() until done.
voyager_clone_rollout(plan, num_iter) ==
    LET s == voyager_clone_step(plan[num_iter], num_iter)
    IN  IF s.raised \/ s.done THEN s
        ELSE voyager_clone_rollout(plan, num_iter + 1)

\* The rollouts followed: `earlier` steps the critic judged False, then one
\* step of any kind, then steps without code.
RolloutPlans ==
    { [i \in 1..action_agent_task_max_retries |->
          IF i <= earlier THEN [parsed |-> "program", bad |-> 0, verdict |-> PyBool(FALSE)]
          ELSE IF i = earlier + 1 THEN final
          ELSE [parsed |-> "none", bad |-> 0, verdict |-> PyBool(FALSE)]] :
        earlier \in 0..(action_agent_task_max_retries - 1), final \in StepInputs }

RECURSIVE DedupKeepOrder(_, _)
\* "dedup but keep order"
DedupKeepOrder(tasks, kept) ==
    IF tasks = << >> THEN kept
    ELSE DedupKeepOrder(Tail(tasks),
                        IF \E i \in 1..Len(kept) : kept[i] = Head(tasks)
                        THEN kept ELSE Append(kept, Head(tasks)))

\* a clean-up that leaves completed_tasks as it finds it
CleanUpTasksMutNoDedup(completed_tasks, failed_tasks) ==
    [completed_tasks |-> completed_tasks,
     failed_tasks |-> SelectSeq(failed_tasks,
         LAMBDA task : ~\E i \in 1..Len(completed_tasks) : completed_tasks[i] = task)]

\* CurriculumAgent.clean_up_tasks
clean_up_tasks(completed_tasks, failed_tasks) ==
    LET updated_completed_tasks == DedupKeepOrder(completed_tasks, << >>)
    IN  [completed_tasks |-> updated_completed_tasks,
         failed_tasks |-> SelectSeq(failed_tasks,
             LAMBDA task : ~\E i \in 1..Len(updated_completed_tasks) :
                               updated_completed_tasks[i] = task)]

\* CurriculumAgent.update_exploration_progress(info)
update_exploration_progress(completed_tasks, failed_tasks, task, success) ==
    IF truthy(success)
    THEN clean_up_tasks(Append(completed_tasks, task), failed_tasks)
    ELSE clean_up_tasks(completed_tasks, Append(failed_tasks, task))

\* One pass of the loop of learn(): a rollout of the proposed task; an
\* exception in it makes info = {task, success: False}; then add_new_skill
\* if info["success"], then update_exploration_progress.
CuLearn(task, plan) ==
    LET r == voyager_clone_rollout(plan, 1)
        success == IF r.raised THEN PyBool(FALSE) ELSE r.success
        lists == update_exploration_progress(cu_completed_tasks, cu_failed_tasks,
                                             task, success)
    IN  /\ Len(lists.failed_tasks) <= MaxFailedTasks
        /\ cu_skills' = IF truthy(success) THEN cu_skills \cup {task} ELSE cu_skills
        /\ cu_completed_tasks' = lists.completed_tasks
        /\ cu_failed_tasks' = lists.failed_tasks
        /\ cu_reported' = cu_reported \cup {task}
        /\ cu_first_completions' =
              IF truthy(success) /\ ~\E i \in 1..Len(cu_first_completions) :
                                        cu_first_completions[i] = task
              THEN Append(cu_first_completions, task) ELSE cu_first_completions
        /\ cu_last' = [op |-> "learn", task |-> task, verdict |-> r.success,
                       exhausted |-> r.exhausted, raised |-> r.raised,
                       stopped_as_success |-> r.stopped_as_success,
                       added |-> truthy(success), completed |-> truthy(success),
                       was_completed |-> task \in Range(cu_completed_tasks),
                       was_failed |-> task \in Range(cu_failed_tasks)]
        /\ UNCHANGED outside_cu

LearnNext ==
    \E task \in CurriculumTasks : \E plan \in RolloutPlans : CuLearn(task, plan)

SpecLearn == Init /\ [][LearnNext]_vars

\* C35: a rollout stops as a success, add_new_skill is called and the task
\* is appended to completed_tasks only when the critic's verdict was true;
\* never on a verdict of False, "False" or "false", nor when the critic ran
\* out of retries.
C35_SuccessOnlyOnTrueVerdict ==
    (cu_last.op = "learn"
        /\ (cu_last.stopped_as_success \/ cu_last.added \/ cu_last.completed))
    => cu_last.verdict \in TrueVerdicts /\ ~cu_last.exhausted

\* The critic answered "False" and the task was added to the library and to
\* completed_tasks.
FalseTextCountsAsSuccess ==
    /\ cu_last.op = "learn"
    /\ cu_last.verdict = PyStr("False")
    /\ cu_last.added /\ cu_last.completed
    /\ cu_last.task \in cu_skills
    /\ cu_completed_tasks[Len(cu_completed_tasks)] = cu_last.task

\* The bool False and a critic out of retries never count as a success.
BoolFalseAndExhaustedNeverSucceed ==
    (cu_last.op = "learn" /\ (cu_last.verdict = PyBool(FALSE) \/ cu_last.exhausted))
    => ~cu_last.stopped_as_success /\ ~cu_last.added /\ ~cu_last.completed

\* C39: after any sequence of update_exploration_progress calls,
\* completed_tasks has no duplicates and is in first-completion order, no
\* task is in both lists, and every reported task is in one of them.
C39_TaskListsConsistent ==
    /\ \A i, j \in 1..Len(cu_completed_tasks) :
          cu_completed_tasks[i] = cu_completed_tasks[j] => i = j
    /\ cu_completed_tasks = cu_first_completions
    /\ Range(cu_completed_tasks) \cap Range(cu_failed_tasks) = {}
    /\ cu_reported \subseteq Range(cu_completed_tasks) \cup Range(cu_failed_tasks)

\* A task completed before was reported completed again, with another task
\* completed in between or before.
C39_Witness ==
    /\ cu_last.op = "learn"
    /\ cu_last.completed /\ cu_last.was_completed
    /\ Len(cu_completed_tasks) = 2
    /\ cu_completed_tasks[1] = cu_last.task

\* A task that had failed was reported completed and left failed_tasks.
FailedTaskCompletedLater ==
    /\ cu_last.op = "learn"
    /\ cu_last.completed /\ cu_last.was_failed
    /\ cu_last.task \notin Range(cu_failed_tasks)

====
